---------------------------- MODULE Spec2Model ----------------------------
(***************************************************************************)
(* SatNOGS Network: observation lifecycle hooks, station health, TLE       *)
(* propagation and audio archival (network/base/signals.py, models.py,     *)
(* tasks.py), as a state machine over the entity store.                    *)
(*                                                                         *)
(* Time is a discrete clock `now` (one unit = five minutes).  A datetime   *)
(* field holds a clock value >= 1, and 0 stands for None.                  *)
(***************************************************************************)
EXTENDS Integers, Sequences, FiniteSets, TLC

(***************************************************************************)
(* Bounds of the model                                                     *)
(***************************************************************************)
MaxTime == 2      \* the clock runs 1..MaxTime
MaxFrames == 1    \* DemodData rows attached to one observation
MaxQueue == 2     \* archive_audio tasks waiting for one observation
MaxLogs == 3      \* StationStatusLog rows kept for one station
MaxTles == 2      \* Tle rows created during a run
MaxUploads == 2   \* successful uploads of one observation's audio

(***************************************************************************)
(* Program constants                                                       *)
(***************************************************************************)
TLE_BUFFER == 2            \* timedelta(minutes=10), in clock units of 5 minutes
STATION_HEARTBEAT_TIME == 1  \* settings.STATION_HEARTBEAT_TIME, in clock units
ARCHIVE_BUCKET == 1000     \* observations per archive.org item

ObsIds == {1, 2}
\* the observation followed through vetting, audio validation and archival
Watched == {1}
StationIds == {1}
SatIds == {1, 2}
Users == {1}
NoStation == 0
None == 0

OBSERVATION_STATUSES == {"unknown", "good", "bad", "failed"}
Modes == {"CW", "FM"}
Environments == {"production", "stage"}
\* what is on disk at the payload path, by what TinyTag.get makes of it
FileKinds == {"absent", "empty", "valid", "short", "badtag", "badstruct"}

VARIABLES
    now,        \* django.utils.timezone.now()
    env,        \* settings.ENVIRONMENT
    obs,        \* Observation rows: vetting, testing, payload, archival fields
    frames,     \* number of DemodData rows of each observation
    file,       \* the payload file of each observation on disk
    obsRecv,    \* receivers connected to post_save for sender=Observation
    archQ,      \* archive_audio tasks enqueued and not yet run, per observation
    uploads,    \* successful uploads to cold storage, per observation
    station,    \* Station rows
    logs,       \* StationStatusLog rows of each station, oldest first
    stRecv,     \* receivers connected to post_save for sender=Station
    link,       \* Observation rows: satellite, start and TLE fields
    tles,       \* Tle rows, by id
    pending,    \* Tle instances stamped by auto_now and not yet inserted
    arch,       \* archive_audio executions in progress, per worker
    demod,      \* DemodData rows
    pushes,     \* successful pushes to the telemetry database, per frame
    sync,       \* sync_to_db executions in progress, per worker
    ziplock,    \* cache entries 'ziplock-<from>-<to>': expiry time, 0 for none
    zip,        \* zip_audio executions, per observation
    zipped,     \* Observation.audio_zipped, per observation
    hook,       \* a save of an observation whose receiver is at its vet step
    zipQ,       \* zip_audio tasks enqueued and not yet run, per observation
    rateQ,      \* rate_observation tasks enqueued, per observation
    rates,      \* cache entries 'station-<id>-rate'
    trc,        \* cache entries 'tr-<uuid>-<key>' of the transmitter
    sats,       \* Satellite rows, by norad_cat_id
    ev          \* the operation that led to this state (history)

obsVars == <<obs, frames, file, obsRecv, archQ, uploads>>
stationVars == <<station, logs, stRecv>>
tleVars == <<link, tles, pending>>
auxVars == <<zipQ, rateQ, rates, trc, sats>>
taskVars == <<arch, demod, pushes, sync, ziplock, zip, zipped, hook, auxVars>>
vars == <<now, env, obs, frames, file, obsRecv, archQ, uploads,
          station, logs, stRecv, link, tles, pending,
          arch, demod, pushes, sync, ziplock, zip, zipped, hook,
          zipQ, rateQ, rates, trc, sats, ev>>

(***************************************************************************)
(* Observation rows                                                        *)
(***************************************************************************)
NewObservation(gs, mode, status) ==
    [exists |-> TRUE, ground_station |-> gs, transmitter_mode |-> mode,
     vetted_status |-> status, vetted_datetime |-> None, vetted_user |-> None,
     testing |-> FALSE, payload |-> FALSE,
     archived |-> FALSE, archive_identifier |-> None, archive_url |-> None]

NoObservation == [NewObservation(NoStation, "FM", "unknown") EXCEPT !.exists = FALSE]

\* Observation.has_audio
HasAudio(inst, f) ==
    IF inst.archive_url # None THEN TRUE
    ELSE IF ~inst.payload THEN FALSE
    ELSE IF f = "absent" THEN FALSE
    ELSE IF f = "empty" THEN FALSE
    ELSE TRUE

\* a count that misses the frame attached last
HasDemoddataStale(n) == n - 1 > 0

\* Observation.has_demoddata: self.demoddata.count(), queried when read
HasDemoddata(n) == n > 0

\* the item of archive.org an observation id falls in (its first id)
ArchiveItem(obs_id) == ((obs_id - 1) \div ARCHIVE_BUCKET) * ARCHIVE_BUCKET + 1

Remove(seq, x) == SelectSeq(seq, LAMBDA y : y # x)
Connect(seq, x) == IF \E i \in 1..Len(seq) : seq[i] = x THEN seq ELSE Append(seq, x)

(***************************************************************************)
(* The auto-vet guards of the two registered Observation receivers          *)
(***************************************************************************)
AutoVetIgnoresStatus(inst, n) ==
    HasDemoddata(n) /\ inst.transmitter_mode # "CW"

\* signals.py: has_demoddata and vetted_status == 'unknown' and mode != 'CW'
SigAutoVet(inst, n) ==
    HasDemoddata(n) /\ inst.vetted_status = "unknown"
        /\ inst.transmitter_mode # "CW"

ModAutoVetAnyStatus(inst, n) == HasDemoddata(n)

\* models.py: has_demoddata and vetted_status == 'unknown'
ModAutoVet(inst, n) ==
    HasDemoddata(n) /\ inst.vetted_status = "unknown"

(***************************************************************************)
(* Model.save() of an Observation instance and the post_save dispatch.     *)
(* A world w is what one save call and everything nested in it sees:       *)
(*   inst    the in-memory instance (one object shared by nested calls)    *)
(*   db      the stored row                                                *)
(*   f       the payload file on disk                                      *)
(*   recv    the connected receivers, in dispatch order                    *)
(*   raised  an exception is propagating to the caller                     *)
(*   enq     archive_audio.delay calls made                                *)
(*   nsaves  row writes made                                               *)
(*   bodies  receiver bodies entered                                       *)
(*   active  the receivers whose body is being executed                    *)
(*   reentry a receiver was called while its own body was being executed   *)
(* n is the DemodData count, t the station's testing flag (or "none" when  *)
(* the observation has no ground station), tagfail an unexpected error of  *)
(* TinyTag.get, e the environment, tm the clock.                           *)
(***************************************************************************)
RECURSIVE ObsSave(_, _, _), ObsDispatch(_, _, _, _), ObsReceiver(_, _, _, _)

\* FieldFile.delete(save=True): remove the file, clear the field, save
PayloadDelete(w, c) ==
    ObsSave([w EXCEPT !.f = "absent", !.inst.payload = FALSE], FALSE, c)

SigAudioStepAnyEnv(w, c) ==
    IF HasAudio(w.inst, w.f) /\ ~w.inst.archived
    THEN IF c.tagfail THEN [w EXCEPT !.raised = TRUE]
         ELSE IF w.f \in {"short", "badtag", "badstruct"} THEN PayloadDelete(w, c)
         ELSE IF w.f # "absent"
              THEN [w EXCEPT !.enq = @ + 1]
              ELSE w
    ELSE w

\* lines 27-40 of signals.py
SigAudioStep(w, c) ==
    IF HasAudio(w.inst, w.f) /\ ~w.inst.archived
    THEN IF c.tagfail THEN [w EXCEPT !.raised = TRUE]
         ELSE IF w.f \in {"short", "badtag", "badstruct"} THEN PayloadDelete(w, c)
         ELSE IF c.e = "production" /\ w.f # "absent"
              THEN [w EXCEPT !.enq = @ + 1]
              ELSE w
    ELSE w

TestingStepAlways(w, created, c) ==
    IF w.raised THEN w
    ELSE IF c.t = "none" THEN [w EXCEPT !.raised = TRUE]
    ELSE IF c.t = "testing"
         THEN ObsSave([w EXCEPT !.inst.testing = TRUE], FALSE, c)
         ELSE w

\* if created and instance.ground_station.testing
TestingStep(w, created, c) ==
    IF w.raised \/ ~created THEN w
    ELSE IF c.t = "none" THEN [w EXCEPT !.raised = TRUE]
    ELSE IF c.t = "testing"
         THEN ObsSave([w EXCEPT !.inst.testing = TRUE], FALSE, c)
         ELSE w

VetStep(w, guard, c) ==
    IF w.raised \/ ~guard THEN w
    ELSE ObsSave([w EXCEPT !.inst.vetted_status = "good",
                           !.inst.vetted_datetime = c.tm], FALSE, c)

Reconnect(w, name) ==
    IF w.raised THEN w ELSE [w EXCEPT !.recv = Connect(@, name)]

\* a receiver is called: it disconnects itself first
Enter(w, name) ==
    [w EXCEPT !.recv = Remove(@, name), !.bodies = @ + 1,
              !.reentry = @ \/ name \in w.active, !.active = @ \cup {name}]

\* a receiver returns or raises
Leave(w, name) == [w EXCEPT !.active = @ \ {name}]

ObsReceiver(name, w, created, c) ==
    LET w0 == Enter(w, name)
    IN  IF name = "sig"
        THEN LET w1 == SigAudioStep(w0, c)
                 w2 == TestingStep(w1, created, c)
                 w3 == VetStep(w2, SigAutoVet(w2.inst, c.n), c)
             IN  Leave(Reconnect(w3, name), name)
        ELSE LET w2 == TestingStep(w0, created, c)
                 w3 == VetStep(w2, ModAutoVet(w2.inst, c.n), c)
             IN  Leave(Reconnect(w3, name), name)

\* Signal.send: the receivers live when the send starts, called in order;
\* an exception of a receiver ends the send
ObsDispatch(w, todo, created, c) ==
    IF todo = <<>> \/ w.raised THEN w
    ELSE ObsDispatch(ObsReceiver(Head(todo), w, created, c), Tail(todo), created, c)

ObsSave(w, created, c) ==
    IF w.raised THEN w
    ELSE ObsDispatch([w EXCEPT !.db = w.inst, !.nsaves = @ + 1], w.recv, created, c)

(***************************************************************************)
(* Operations on observations                                              *)
(***************************************************************************)
\* op: the operation; id: the record it acted on; pre: the instance as the
\* caller saved it; before: what was stored before; n: the DemodData count;
\* bodies, nsaves: receiver bodies entered and row writes made; enq:
\* archive_audio tasks enqueued; rows: StationStatusLog rows appended; f: the
\* payload file the receivers found on disk ("none" for other operations)
Event(op, id, created, raised, pre, before, n, w, uploaded) ==
    [op |-> op, id |-> id, created |-> created, raised |-> raised,
     pre |-> pre, before |-> before, n |-> n, bodies |-> w.bodies,
     nsaves |-> w.nsaves, enq |-> w.enq, rows |-> w.rows,
     reentry |-> w.reentry, uploaded |-> uploaded, f |-> "none"]

NoWork == [bodies |-> 0, nsaves |-> 0, enq |-> 0, rows |-> 0, reentry |-> FALSE]

ObsWork(w) ==
    [bodies |-> w.bodies, nsaves |-> w.nsaves, enq |-> w.enq, rows |-> 0,
     reentry |-> w.reentry]

\* the world of a save that starts outside the receivers
NewWorld(inst, db, f, recv) ==
    [inst |-> inst, db |-> db, f |-> f, recv |-> recv, raised |-> FALSE,
     enq |-> 0, nsaves |-> 0, bodies |-> 0, active |-> {}, reentry |-> FALSE]

\* instance.ground_station.testing, as the receivers read it
StationTesting(gs) ==
    IF gs = NoStation THEN "none"
    ELSE IF station[gs].testing THEN "testing" ELSE "normal"

\* instance.save() by a caller outside the receivers: inst is the instance
\* the caller saves, f0 the payload file at that time
CallerSave(op, o, inst, f0, created, tagfail) ==
    LET c == [n |-> frames[o], t |-> StationTesting(inst.ground_station),
              tagfail |-> tagfail, e |-> env, tm |-> now]
        w == ObsSave(NewWorld(inst, obs[o], f0, obsRecv), created, c)
    IN  /\ archQ[o] + w.enq <= MaxQueue
        /\ obs' = [obs EXCEPT ![o] = w.db]
        /\ file' = [file EXCEPT ![o] = w.f]
        /\ obsRecv' = w.recv
        /\ archQ' = [archQ EXCEPT ![o] = @ + w.enq]
        /\ ev' = [Event(op, o, created, w.raised, inst, obs[o], frames[o],
                        ObsWork(w), FALSE) EXCEPT !.f = f0]

\* Observation.objects.create(...), or the admin's add form: the station may
\* be left empty (null=True, blank=True) and vetted_status may be chosen
CreateObservation(o, gs, mode, status) ==
    /\ ~obs[o].exists
    /\ CallerSave("create", o, NewObservation(gs, mode, status), file[o], TRUE, FALSE)
    /\ UNCHANGED <<now, env, frames, uploads, stationVars, tleVars, taskVars>>

\* a station client uploads the audio of an observation (payload field, save)
UploadPayload(o, kind, tagfail) ==
    /\ obs[o].exists /\ ~obs[o].archived /\ ~obs[o].payload
    /\ kind \in FileKinds \ {"absent"}
    /\ CallerSave("upload", o, [obs[o] EXCEPT !.payload = TRUE], kind, FALSE, tagfail)
    /\ UNCHANGED <<now, env, frames, uploads, stationVars, tleVars, taskVars>>

\* a DemodData row is created for the observation
AttachDemodData(o) ==
    /\ obs[o].exists /\ frames[o] < MaxFrames
    /\ frames' = [frames EXCEPT ![o] = @ + 1]
    /\ ev' = Event("demod", o, FALSE, FALSE, obs[o], obs[o], frames[o], NoWork, FALSE)
    /\ UNCHANGED <<now, env, obs, file, obsRecv, archQ, uploads, stationVars,
                   tleVars, taskVars>>

\* the vetting view: a user sets the status of an observation and saves it
ManualVet(o, status, user, tagfail) ==
    /\ obs[o].exists
    /\ status \in OBSERVATION_STATUSES \ {"unknown"}
    /\ CallerSave("vet", o,
                  [obs[o] EXCEPT !.vetted_status = status, !.vetted_user = user,
                                 !.vetted_datetime = now],
                  file[o], FALSE, tagfail)
    /\ UNCHANGED <<now, env, frames, uploads, stationVars, tleVars, taskVars>>

\* any other save of a stored observation, its fields as stored
ResaveObservation(o, tagfail) ==
    /\ obs[o].exists
    /\ CallerSave("resave", o, obs[o], file[o], FALSE, tagfail)
    /\ UNCHANGED <<now, env, frames, uploads, stationVars, tleVars, taskVars>>

Tick ==
    /\ now < MaxTime
    /\ now' = now + 1
    /\ ev' = Event("tick", 0, FALSE, FALSE, 0, 0, 0, NoWork, FALSE)
    /\ UNCHANGED <<env, obsVars, stationVars, tleVars, taskVars>>

(***************************************************************************)
(* archive_audio(obs_id): one run of an enqueued task.  result is what     *)
(* internetarchive.upload does: "ok" (status 200), "status" (another       *)
(* status code) or "error" (RequestException, AuthenticationError).        *)
(***************************************************************************)
UploadReturned(result) == result # "error"

\* res[0].status_code == 200, reached only when upload raised nothing
UploadSucceeded(result) == result = "ok"

UploadAlways(row, f) == TRUE

\* obs.payload.path raises ValueError when the field names no file, and
\* upload cannot read a file that is not on disk
CanUpload(row, f) == row.payload /\ f # "absent"

MarkArchivedKeepPayload(row, o) ==
    [row EXCEPT !.archived = TRUE, !.archive_url = ArchiveItem(o),
                !.archive_identifier = ArchiveItem(o)]

\* lines 215-218: the fields archive_audio sets after a 200
MarkArchived(row, o) ==
    [row EXCEPT !.archived = TRUE, !.archive_url = ArchiveItem(o),
                !.archive_identifier = ArchiveItem(o), !.payload = FALSE]

ArchiveAudio(o, result) ==
    /\ archQ[o] > 0
    /\ obs[o].exists
    /\ archQ' = [archQ EXCEPT ![o] = @ - 1]
    /\ IF CanUpload(obs[o], file[o]) /\ UploadSucceeded(result)
       THEN LET inst == MarkArchived(obs[o], o)
                c == [n |-> frames[o], t |-> StationTesting(inst.ground_station),
                      tagfail |-> FALSE, e |-> env, tm |-> now]
                w == ObsSave(NewWorld(inst, obs[o], "absent", obsRecv), FALSE, c)
            IN  /\ obs' = [obs EXCEPT ![o] = w.db]
                /\ file' = [file EXCEPT ![o] = w.f]
                /\ obsRecv' = w.recv
                /\ uploads' = [uploads EXCEPT ![o] = @ + 1]
                /\ ev' = Event("archive", o, FALSE, w.raised, inst, obs[o],
                               frames[o], ObsWork(w), TRUE)
       ELSE /\ UNCHANGED <<obs, file, obsRecv, uploads>>
            /\ ev' = Event("archive", o, FALSE, ~CanUpload(obs[o], file[o]), obs[o],
                           obs[o], frames[o], NoWork, FALSE)
    /\ UNCHANGED <<now, env, frames, stationVars, tleVars, taskVars>>

(***************************************************************************)
(* Stations                                                                *)
(***************************************************************************)
NewStation(testing, last_seen, status) ==
    [exists |-> TRUE, testing |-> testing, last_seen |-> last_seen,
     status |-> status]

NoStationRow == [NewStation(TRUE, None, 0) EXCEPT !.exists = FALSE]

IsOnlineInclusive(st, tm) ==
    st.last_seen # None /\ st.last_seen + STATION_HEARTBEAT_TIME >= tm

\* Station.is_online: last_seen + timedelta(minutes=HEARTBEAT) > now(), and
\* False when last_seen is None (TypeError)
IsOnline(st, tm) ==
    st.last_seen # None /\ st.last_seen + STATION_HEARTBEAT_TIME > tm

\* Station.is_offline
IsOffline(st, tm) == ~IsOnline(st, tm)

\* the if/elif/else of _station_post_save and of station_status_update
DeriveStatus(st, tm) ==
    IF IsOffline(st, tm) THEN 0
    ELSE IF st.testing THEN 1
    ELSE 2

(***************************************************************************)
(* Model.save() of a Station instance and the post_save dispatch.  A world *)
(* w holds inst, db, recv as for observations, and log, the station's      *)
(* StationStatusLog rows.  The receivers of models.py ("mod") and of       *)
(* signals.py ("sig") have the same body.                                  *)
(***************************************************************************)
RECURSIVE StationSave(_, _, _), StationDispatch(_, _, _, _), StationReceiver(_, _, _, _)

StationReceiver(name, w, created, tm) ==
    LET w0 == Enter(w, name)
    IN  IF ~created
        THEN LET current_status == w0.inst.status
                 w1 == StationSave([w0 EXCEPT !.inst.status = DeriveStatus(w0.inst, tm)],
                                   FALSE, tm)
                 w2 == IF w1.inst.status # current_status
                       THEN [w1 EXCEPT !.log = Append(@, w1.inst.status)]
                       ELSE w1
             IN  Leave([w2 EXCEPT !.recv = Connect(@, name)], name)
        ELSE Leave([w0 EXCEPT !.log = Append(@, w0.inst.status),
                              !.recv = Connect(@, name)], name)

StationDispatch(w, todo, created, tm) ==
    IF todo = <<>> THEN w
    ELSE StationDispatch(StationReceiver(Head(todo), w, created, tm), Tail(todo),
                         created, tm)

StationSave(w, created, tm) ==
    StationDispatch([w EXCEPT !.db = w.inst, !.nsaves = @ + 1], w.recv, created, tm)

StationWork(w, s) ==
    [bodies |-> w.bodies, nsaves |-> w.nsaves, enq |-> 0,
     rows |-> Len(w.log) - Len(logs[s]), reentry |-> w.reentry]

\* the world of a station save that starts outside the receivers
NewStationWorld(inst, db, recv, log) ==
    [inst |-> inst, db |-> db, recv |-> recv, log |-> log, nsaves |-> 0,
     bodies |-> 0, active |-> {}, reentry |-> FALSE]

\* station.save() by a caller outside the receivers
StationCallerSave(op, s, inst, created) ==
    LET w == StationSave(NewStationWorld(inst, station[s], stRecv, logs[s]),
                         created, now)
    IN  /\ Len(w.log) <= MaxLogs
        /\ station' = [station EXCEPT ![s] = w.db]
        /\ logs' = [logs EXCEPT ![s] = w.log]
        /\ stRecv' = w.recv
        /\ ev' = Event(op, s, created, FALSE, inst, station[s], 0,
                       StationWork(w, s), FALSE)

\* a station is registered; the caller may pass any field values
CreateStation(s, testing, last_seen, status) ==
    /\ ~station[s].exists
    /\ last_seen \in {None, now}
    /\ StationCallerSave("stcreate", s, NewStation(testing, last_seen, status), TRUE)
    /\ UNCHANGED <<now, env, obsVars, tleVars, taskVars>>

\* the station's client polls for jobs: last_seen = now(), save
Heartbeat(s) ==
    /\ station[s].exists
    /\ StationCallerSave("stsave", s, [station[s] EXCEPT !.last_seen = now], FALSE)
    /\ UNCHANGED <<now, env, obsVars, tleVars, taskVars>>

\* the owner or an admin edits the station: testing flag, status field
EditStation(s, testing, status) ==
    /\ station[s].exists
    /\ StationCallerSave("stsave", s,
                         [station[s] EXCEPT !.testing = testing, !.status = status],
                         FALSE)
    /\ UNCHANGED <<now, env, obsVars, tleVars, taskVars>>

\* station_status_update(): the periodic task, one station of its loop
SweepOne(s, w) ==
    IF ~station[s].exists THEN w
    ELSE LET inst == [station[s] EXCEPT !.status = DeriveStatus(station[s], now)]
             w1 == StationSave(NewStationWorld(inst, station[s], w.recv, logs[s]),
                               FALSE, now)
         IN  [recv |-> w1.recv,
              bodies |-> w.bodies + w1.bodies,
              nsaves |-> w.nsaves + w1.nsaves,
              reentry |-> w.reentry \/ w1.reentry,
              db |-> [w.db EXCEPT ![s] = w1.db],
              log |-> [w.log EXCEPT ![s] = w1.log],
              pre |-> [w.pre EXCEPT ![s] = inst]]

RECURSIVE SweepAll(_, _)
SweepAll(todo, w) ==
    IF todo = {} THEN w
    ELSE LET s == CHOOSE x \in todo : \A y \in todo : x <= y
         IN  SweepAll(todo \ {s}, SweepOne(s, w))

StationStatusUpdate ==
    LET w == SweepAll(StationIds, [recv |-> stRecv, db |-> station, log |-> logs,
                                   pre |-> station, bodies |-> 0, nsaves |-> 0,
                                   reentry |-> FALSE])
    IN  /\ \E s \in StationIds : station[s].exists
        /\ \A s \in StationIds : Len(w.log[s]) <= MaxLogs
        /\ station' = w.db
        /\ logs' = w.log
        /\ stRecv' = w.recv
        /\ ev' = [op |-> "sweep", id |-> 0, created |-> FALSE, raised |-> FALSE,
                  pre |-> w.pre, before |-> station, n |-> 0, bodies |-> w.bodies,
                  nsaves |-> w.nsaves, enq |-> 0, reentry |-> w.reentry,
                  rows |-> [s \in StationIds |-> Len(w.log[s]) - Len(logs[s])],
                  uploaded |-> FALSE, f |-> "none"]
        /\ UNCHANGED <<now, env, obsVars, tleVars, taskVars>>

(***************************************************************************)
(* TLE propagation.  An observation carries the Tle row it links (tle, 0   *)
(* for none) and the TLE set copied into it (tle_updated, tle_lines).      *)
(***************************************************************************)
NewLink(sat, start, tle, updated, lines) ==
    [exists |-> TRUE, satellite |-> sat, start |-> start, tle |-> tle,
     tle_updated |-> updated, tle_lines |-> lines]

NoLink == [NewLink(0, 0, 0, 0, 0) EXCEPT !.exists = FALSE]

NoTleSet == [updated |-> 0, lines |-> 0]

StartsNow(start, tm) == start >= tm

\* start__gt = now() + timedelta(minutes=10)
StartsAfterBuffer(start, tm) == start > tm + TLE_BUFFER

StrictlyNewer(current, fetched) == current > fetched

\* tle_updated__lt = tle_updated
StrictlyOlder(current, fetched) == current < fetched

\* future_observations.filter(satellite__norad_cat_id=norad_id,
\*                            tle_updated__lt=tle_updated).update(...)
UpdateSatellite(lk, sat, tle_set, tm) ==
    [o \in ObsIds |->
        IF /\ lk[o].exists
           /\ StartsAfterBuffer(lk[o].start, tm)
           /\ lk[o].satellite = sat
           /\ StrictlyOlder(lk[o].tle_updated, tle_set.updated)
        THEN [lk[o] EXCEPT !.tle_updated = tle_set.updated,
                           !.tle_lines = tle_set.lines]
        ELSE lk[o]]

RECURSIVE UpdateSatellites(_, _, _, _)
\* for norad_id in tle_sets.keys(): an empty list of sets is skipped
UpdateSatellites(lk, todo, tle_sets, tm) ==
    IF todo = {} THEN lk
    ELSE LET sat == CHOOSE x \in todo : \A y \in todo : x <= y
             lk1 == IF tle_sets[sat] = NoTleSet THEN lk
                    ELSE UpdateSatellite(lk, sat, tle_sets[sat], tm)
         IN  UpdateSatellites(lk1, todo \ {sat}, tle_sets, tm)

\* satellites of the observations that start after the buffer
NoradIdSet(lk, tm) ==
    {lk[o].satellite : o \in {x \in ObsIds : lk[x].exists
                                              /\ StartsAfterBuffer(lk[x].start, tm)}}

\* update_future_observations_with_new_tle_sets(): failed is a
\* DBConnectionError of the one catalog request made for all satellites,
\* tle_sets the first set the catalog holds for each satellite asked for
\* (NoTleSet: none)
UpdateFutureObservationsWithNewTleSets(failed, tle_sets) ==
    /\ \E o \in ObsIds : link[o].exists
    /\ \A sat \in SatIds : sat \notin NoradIdSet(link, now)
                              => tle_sets[sat] = NoTleSet
    /\ link' = IF NoradIdSet(link, now) = {} \/ failed THEN link
               ELSE UpdateSatellites(link, NoradIdSet(link, now), tle_sets, now)
    /\ ev' = Event("tletask", 0, FALSE, failed, tle_sets, 0, 0, NoWork, FALSE)
    /\ UNCHANGED <<now, env, obsVars, stationVars, tles, pending, taskVars>>

\* _tle_post_save: Observation.objects.filter(satellite=instance.satellite,
\*                                            start__gt=start).update(tle=instance.id)
TlePostSave(lk, id, sat, created, tm) ==
    IF ~created THEN lk
    ELSE [o \in ObsIds |->
             IF lk[o].exists /\ lk[o].satellite = sat
                  /\ StartsAfterBuffer(lk[o].start, tm)
             THEN [lk[o] EXCEPT !.tle = id]
             ELSE lk[o]]

\* Tle(...).save(), first half: pre_save stamps updated (auto_now=True).
\* Two saves never read the same clock value.
TleStamp(sat) ==
    /\ Len(tles) + Cardinality(pending) < MaxTles
    /\ \A k \in 1..Len(tles) : tles[k].updated # now
    /\ \A p \in pending : p.updated # now
    /\ pending' = pending \cup {[satellite |-> sat, updated |-> now]}
    /\ ev' = Event("tlestamp", 0, TRUE, FALSE, sat, 0, 0, NoWork, FALSE)
    /\ UNCHANGED <<now, env, obsVars, stationVars, link, tles, taskVars>>

\* Tle(...).save(), second half: the row is inserted and post_save is sent
\* to the receivers of models.py and of signals.py, which have the same body
TleInsert(p) ==
    /\ p \in pending
    /\ pending' = pending \ {p}
    /\ tles' = Append(tles, p)
    /\ link' = TlePostSave(TlePostSave(link, Len(tles) + 1, p.satellite, TRUE, now),
                           Len(tles) + 1, p.satellite, TRUE, now)
    /\ ev' = Event("tleinsert", Len(tles) + 1, TRUE, FALSE, p, 0, 0, NoWork, FALSE)
    /\ UNCHANGED <<now, env, obsVars, stationVars, taskVars>>

\* Satellite.latest_tle: Tle.objects.filter(satellite=self).latest('updated'),
\* 0 when the satellite has no Tle row
LatestTle(rows, sat) ==
    LET mine == {k \in 1..Len(rows) : rows[k].satellite = sat}
        newest == {k \in mine : \A j \in mine : rows[j].updated <= rows[k].updated}
    IN  IF mine = {} THEN 0 ELSE CHOOSE k \in newest : \A j \in newest : j <= k

\* an observation is scheduled to start at the end of the buffer or later:
\* it links the latest Tle row of its satellite and copies the TLE set
\* current at that time
ScheduleObservation(o, sat, start) ==
    /\ ~link[o].exists
    /\ start \in (now + TLE_BUFFER)..(now + TLE_BUFFER + 1)
    /\ link' = [link EXCEPT ![o] = NewLink(sat, start, LatestTle(tles, sat), now, 1)]
    /\ ev' = Event("schedule", o, TRUE, FALSE, 0, 0, 0, NoWork, FALSE)
    /\ UNCHANGED <<now, env, obsVars, stationVars, tles, pending, taskVars>>

\* the satellite whose Tle rows are refreshed during a run
TleSats == {1}

TleSets == {NoTleSet} \cup [updated : 1..MaxTime, lines : {2}]

(***************************************************************************)
(* archive_audio as its workers run it: reading the observation, the       *)
(* upload, and the save of the archival fields are separate steps, and a   *)
(* worker may die between the upload and the save.                         *)
(***************************************************************************)
Workers == {1, 2}

IdleArchive == [pc |-> "idle", o |-> 0, inst |-> NoObservation]

\* lines 162-198: the task is taken from the queue, reads the observation
\* and builds the arguments of upload; obs.payload.path raises ValueError
\* when the payload field names no file
ArchiveRead(k, o) ==
    /\ arch[k].pc = "idle"
    /\ archQ[o] > 0
    /\ obs[o].exists
    /\ archQ' = [archQ EXCEPT ![o] = @ - 1]
    /\ arch' = IF obs[o].payload
               THEN [arch EXCEPT ![k] = [pc |-> "read", o |-> o, inst |-> obs[o]]]
               ELSE arch
    /\ ev' = Event("archread", o, FALSE, ~obs[o].payload, obs[o], obs[o],
                   frames[o], NoWork, FALSE)
    /\ UNCHANGED <<now, env, obs, frames, file, obsRecv, uploads, stationVars,
                   tleVars, demod, pushes, sync, ziplock, zip, zipped, hook, auxVars>>

\* lines 200-214: upload, its exceptions and its status code
ArchiveUpload(k, result) ==
    /\ arch[k].pc = "read"
    /\ uploads[arch[k].o] < MaxUploads
    /\ LET o == arch[k].o
           done == CanUpload(arch[k].inst, file[o]) /\ UploadSucceeded(result)
       IN  /\ uploads' = [uploads EXCEPT ![o] = IF done THEN @ + 1 ELSE @]
           /\ arch' = [arch EXCEPT ![k] = IF done THEN [@ EXCEPT !.pc = "uploaded"]
                                          ELSE IdleArchive]
           /\ ev' = Event("archupload", o, FALSE, ~CanUpload(arch[k].inst, file[o]),
                          arch[k].inst, result, frames[o], NoWork, done)
    /\ UNCHANGED <<now, env, obs, frames, file, obsRecv, archQ, stationVars,
                   tleVars, demod, pushes, sync, ziplock, zip, zipped, hook, auxVars>>

\* lines 215-219: payload.delete(save=False), then
\* obs.save(update_fields=['archived', 'archive_url', 'archive_identifier',
\* 'payload']) writes these four fields and sends post_save
ArchiveSave(k) ==
    /\ arch[k].pc = "uploaded"
    /\ LET o == arch[k].o
           inst == MarkArchived(arch[k].inst, o)
           row == MarkArchived(obs[o], o)
           c == [n |-> frames[o], t |-> StationTesting(inst.ground_station),
                 tagfail |-> FALSE, e |-> env, tm |-> now]
           w0 == [NewWorld(inst, row, "absent", obsRecv) EXCEPT !.nsaves = 1]
           w == ObsDispatch(w0, w0.recv, FALSE, c)
       IN  /\ archQ[o] + w.enq <= MaxQueue
           /\ obs' = [obs EXCEPT ![o] = w.db]
           /\ file' = [file EXCEPT ![o] = w.f]
           /\ obsRecv' = w.recv
           /\ archQ' = [archQ EXCEPT ![o] = @ + w.enq]
           /\ ev' = Event("archsave", o, FALSE, w.raised, inst, obs[o], frames[o],
                          ObsWork(w), FALSE)
    /\ arch' = [arch EXCEPT ![k] = IdleArchive]
    /\ UNCHANGED <<now, env, frames, uploads, stationVars, tleVars,
                   demod, pushes, sync, ziplock, zip, zipped, hook, auxVars>>

\* the worker dies after upload returned and before line 215
ArchiveCrash(k) ==
    /\ arch[k].pc = "uploaded"
    /\ arch' = [arch EXCEPT ![k] = IdleArchive]
    /\ ev' = Event("archcrash", arch[k].o, FALSE, TRUE, arch[k].inst, 0, 0,
                   NoWork, FALSE)
    /\ UNCHANGED <<now, env, obsVars, stationVars, tleVars,
                   demod, pushes, sync, ziplock, zip, zipped, hook, auxVars>>

\* the worker dies between obs.payload.delete(save=False) of line 218, which
\* removes the file, and the save of line 219
ArchiveCrashAfterDelete(k) ==
    /\ arch[k].pc = "uploaded"
    /\ arch' = [arch EXCEPT ![k] = IdleArchive]
    /\ file' = [file EXCEPT ![arch[k].o] = "absent"]
    /\ ev' = Event("archcrash", arch[k].o, FALSE, TRUE, arch[k].inst, 0, 0,
                   NoWork, FALSE)
    /\ UNCHANGED <<now, env, obs, frames, obsRecv, archQ, uploads, stationVars,
                   tleVars, demod, pushes, sync, ziplock, zip, zipped, hook, auxVars>>

\* observation_remove_files(instance): each file that is on disk when
\* os.path.isfile looks is removed.  waterfall: "none" (empty field), "file"
\* or "gone" (the field names a file that is not on disk); race: the file
\* that another process removes between isfile and os.remove, which then
\* raises OSError
RemoveFiles(row, f, waterfall, race) ==
    LET payload_there == row.payload /\ f # "absent"
        payload_raises == payload_there /\ race = "payload"
        waterfall_there == ~payload_raises /\ waterfall = "file"
    IN  [raised |-> payload_raises \/ (waterfall_there /\ race = "waterfall"),
         f |-> IF payload_there THEN "absent" ELSE f,
         waterfall |-> IF waterfall_there THEN "gone" ELSE waterfall]

\* Observation.delete(): the row and its DemodData rows are deleted and
\* post_delete is sent inside one transaction, so an exception of the
\* receiver rolls the deletion back; removed files stay removed
DeleteObservation(o, waterfall, race) ==
    /\ obs[o].exists
    /\ race = "payload" => obs[o].payload /\ file[o] # "absent"
    /\ race = "waterfall" => waterfall = "file"
    /\ LET r == RemoveFiles(obs[o], file[o], waterfall, race)
       IN  /\ obs' = IF r.raised THEN obs ELSE [obs EXCEPT ![o] = NoObservation]
           /\ frames' = IF r.raised THEN frames ELSE [frames EXCEPT ![o] = 0]
           /\ link' = IF r.raised THEN link ELSE [link EXCEPT ![o] = NoLink]
           /\ file' = [file EXCEPT ![o] = r.f]
           /\ ev' = Event("delete", o, FALSE, r.raised,
                          [waterfall |-> waterfall, race |-> race, f |-> file[o]],
                          obs[o], frames[o], NoWork, r.waterfall = "gone")
    /\ UNCHANGED <<now, env, obsRecv, archQ, uploads, stationVars, tles, pending,
                   taskVars>>

\* obs.status >= 100: the observation is rated good
StatusGood(row) == row.vetted_status = "good"

\* clean_observations(): of the observations older than the threshold (old)
\* that are not archived and have a payload, those not rated good are
\* deleted on stage; archive_audio.delay for the others whose payload file
\* is on disk
CleanObservations(old) ==
    LET selected == {o \in old : obs[o].exists /\ ~obs[o].archived /\ obs[o].payload}
        deleted == IF env = "stage" THEN {o \in selected : ~StatusGood(obs[o])}
                   ELSE {}
        due == {o \in selected \ deleted : file[o] # "absent"}
    IN  /\ selected # {}
        /\ \A o \in due : archQ[o] < MaxQueue
        /\ archQ' = [o \in ObsIds |-> IF o \in due THEN archQ[o] + 1 ELSE archQ[o]]
        /\ obs' = [o \in ObsIds |-> IF o \in deleted THEN NoObservation ELSE obs[o]]
        /\ frames' = [o \in ObsIds |-> IF o \in deleted THEN 0 ELSE frames[o]]
        /\ link' = [o \in ObsIds |-> IF o \in deleted THEN NoLink ELSE link[o]]
        /\ file' = [o \in ObsIds |->
                       IF o \in deleted
                       THEN RemoveFiles(obs[o], file[o], "none", "none").f
                       ELSE file[o]]
        /\ ev' = Event("clean", 0, FALSE, FALSE, old,
                       [selected |-> selected, deleted |-> deleted, due |-> due],
                       0, NoWork, FALSE)
        /\ UNCHANGED <<now, env, obsRecv, uploads, stationVars, tles, pending,
                       taskVars>>

(***************************************************************************)
(* process_audio(observation_id): the audio of an observation is checked   *)
(* inside a transaction on the row read with select_for_update.            *)
(***************************************************************************)
\* settings.ZIP_AUDIO_FILES
ZIP_AUDIO_FILES == TRUE

\* what TinyTag.get makes of the file: a duration of None or under one
\* second, TinyTagException, struct.error or TypeError
Rejected(f) == f \in {"empty", "short", "badtag", "badstruct"}

\* observation.payload.path raises ValueError when the field names no file,
\* TinyTag.get raises IOError when the file is not on disk, and tagfail is
\* any other error of TinyTag.get: the transaction is rolled back.  A
\* rejected file is deleted with payload.delete(), which saves the
\* observation; for any other file rate_observation and zip_audio are queued
ProcessAudio(o, tagfail) ==
    /\ obs[o].exists
    /\ LET c == [n |-> frames[o], t |-> StationTesting(obs[o].ground_station),
                 tagfail |-> FALSE, e |-> env, tm |-> now]
           readable == obs[o].payload /\ file[o] # "absent" /\ ~tagfail
           w == IF readable /\ Rejected(file[o])
                THEN PayloadDelete(NewWorld(obs[o], obs[o], file[o], obsRecv), c)
                ELSE NewWorld(obs[o], obs[o], file[o], obsRecv)
           queued == readable /\ ~Rejected(file[o])
       IN  /\ queued => rateQ[o] < MaxQueue /\ zipQ[o] < MaxQueue
           /\ archQ[o] + w.enq <= MaxQueue
           /\ obs' = [obs EXCEPT ![o] = w.db]
           /\ file' = [file EXCEPT ![o] = w.f]
           /\ obsRecv' = w.recv
           /\ archQ' = [archQ EXCEPT ![o] = @ + w.enq]
           /\ rateQ' = IF queued THEN [rateQ EXCEPT ![o] = @ + 1] ELSE rateQ
           /\ zipQ' = IF queued /\ ZIP_AUDIO_FILES THEN [zipQ EXCEPT ![o] = @ + 1]
                      ELSE zipQ
           /\ ev' = [Event("process", o, FALSE, ~readable \/ w.raised, obs[o], obs[o],
                           frames[o], ObsWork(w), FALSE) EXCEPT !.f = file[o]]
    /\ UNCHANGED <<now, env, frames, uploads, stationVars, tleVars,
                   arch, demod, pushes, sync, ziplock, zip, zipped, hook,
                   rates, trc, sats>>

(***************************************************************************)
(* sync_to_db(frame_id): DemodData rows are pushed to the telemetry        *)
(* database.  A row carries the transmitter mode of its observation, the   *)
(* sync_to_db flag of that observation's transmitter, and what is at its   *)
(* payload_demod path: "data", "image" or "missing".                       *)
(***************************************************************************)
FrameIds == {1, 2, 3}

\* the frames of the runs that overlap
PairedFrames == {1, 2}

\* settings.NOT_SYNCED_MODES
NOT_SYNCED_MODES == {"CW"}

FrameKinds == {"data", "image", "missing"}

NewFrame(mode, flagged, kind) ==
    [exists |-> TRUE, copied_to_db |-> FALSE, transmitter_mode |-> mode,
     sync_to_db |-> flagged, kind |-> kind]

NoFrame == [NewFrame("FM", FALSE, "data") EXCEPT !.exists = FALSE]

\* failed: a push of this run has raised RequestException
IdleSync == [pc |-> "idle", todo |-> <<>>, failed |-> FALSE]

SyncSelectsCopied(row) ==
    row.exists /\ row.copied_to_db /\ row.transmitter_mode \notin NOT_SYNCED_MODES

\* DemodData.objects.filter(copied_to_db=False)
\*     .exclude(observation__transmitter_mode__in=settings.NOT_SYNCED_MODES)
SyncSelects(row) ==
    row.exists /\ ~row.copied_to_db /\ row.transmitter_mode \notin NOT_SYNCED_MODES

RECURSIVE InOrder(_)
\* the ids of a set, ascending
InOrder(ids) ==
    IF ids = {} THEN <<>>
    ELSE LET f == CHOOSE x \in ids : \A y \in ids : x <= y
         IN  <<f>> \o InOrder(ids \ {f})

\* the rows the loop of sync_to_db iterates over: frame_id = 0 stands for
\* None, and any other value narrows the selection to that row
SyncFrames(rows, frame_id) ==
    InOrder({f \in FrameIds : /\ SyncSelects(rows[f])
                              /\ (frame_id # 0 => f = frame_id)})

\* sync_demoddata_to_db(frame): the frame is pushed, and copied_to_db is set
\* and saved when the push succeeded; a failed push raises RequestException
SyncDemoddataToDb(rows, f, result) ==
    IF result = "ok" THEN [rows EXCEPT ![f].copied_to_db = TRUE] ELSE rows

\* a DemodData row is stored for an observation
CreateFrame(f, mode, flagged, kind) ==
    /\ ~demod[f].exists
    /\ demod' = [demod EXCEPT ![f] = NewFrame(mode, flagged, kind)]
    /\ ev' = Event("frame", f, TRUE, FALSE, 0, 0, 0, NoWork, FALSE)
    /\ UNCHANGED <<now, env, obsVars, stationVars, tleVars,
                   arch, pushes, sync, ziplock, zip, zipped, hook, auxVars>>

\* a run starts: the queryset is evaluated when the loop begins
SyncStart(k, frame_id) ==
    /\ sync[k].pc = "idle"
    /\ \E f \in FrameIds : demod[f].exists
    /\ sync' = [sync EXCEPT ![k] =
                   IF SyncFrames(demod, frame_id) = <<>> THEN IdleSync
                   ELSE [pc |-> "loop", todo |-> SyncFrames(demod, frame_id),
                         failed |-> FALSE]]
    /\ ev' = Event("syncstart", frame_id, FALSE, FALSE, SyncFrames(demod, frame_id),
                   0, 0, NoWork, FALSE)
    /\ UNCHANGED <<now, env, obsVars, stationVars, tleVars,
                   arch, demod, pushes, ziplock, zip, zipped, hook, auxVars>>

\* the rest of a run after its first frame
SyncRest(todo, failed) ==
    IF Tail(todo) = <<>> THEN IdleSync
    ELSE [pc |-> "loop", todo |-> Tail(todo), failed |-> failed]

\* one iteration of the loop.  frame.is_image() opens the file before its
\* try block, so a missing file ends the run with IOError; an image is
\* skipped; any other frame is pushed, and RequestException is caught
SyncStep(k, result) ==
    /\ sync[k].pc = "loop"
    /\ LET f == Head(sync[k].todo)
           kind == demod[f].kind
       IN  /\ sync' = [sync EXCEPT ![k] = IF kind = "missing" THEN IdleSync
                                          ELSE SyncRest(sync[k].todo,
                                                        \/ sync[k].failed
                                                        \/ /\ kind = "data"
                                                           /\ result = "neterr")]
           /\ demod' = IF kind = "data" THEN SyncDemoddataToDb(demod, f, result)
                       ELSE demod
           /\ pushes' = IF kind = "data" /\ result = "ok"
                        THEN [pushes EXCEPT ![f] = @ + 1] ELSE pushes
           /\ ev' = Event(IF kind = "data" THEN "push" ELSE "skip", f, FALSE,
                          kind = "missing", demod[f], result, 0, NoWork,
                          kind = "data" /\ result = "ok")
    /\ UNCHANGED <<now, env, obsVars, stationVars, tleVars,
                   arch, ziplock, zip, zipped, hook, auxVars>>

(***************************************************************************)
(* zip_audio(observation_id, path): the audio of an observation is added   *)
(* to the zip file of its id range under the cache entry                   *)
(* 'ziplock-<from>-<to>'.  ziplock holds the time an entry expires.        *)
(***************************************************************************)
\* settings.AUDIO_FILES_PER_ZIP
AUDIO_FILES_PER_ZIP == 2

\* settings.ZIP_AUDIO_LOCK_EXPIRATION, in clock units
ZIP_AUDIO_LOCK_EXPIRATION == 1

ZipGroup(observation_id) == (observation_id - 1) \div AUDIO_FILES_PER_ZIP

\* get_zip_range_and_path(group)[0]
ZipRange(group) ==
    <<group * AUDIO_FILES_PER_ZIP + 1, group * AUDIO_FILES_PER_ZIP + AUDIO_FILES_PER_ZIP>>

ZipRanges == {ZipRange(ZipGroup(o)) : o \in ObsIds}

\* cache.add(key, '', timeout) stores the entry, and returns True, only when
\* no entry is stored under the key or the stored one has expired
CacheAdd(expires, tm) == expires <= tm

\* zip_audio.delay(observation_id, path): a task is queued
ZipRequest(o) ==
    /\ zipQ[o] < MaxQueue
    /\ zipQ' = [zipQ EXCEPT ![o] = @ + 1]
    /\ ev' = Event("zipreq", o, FALSE, FALSE, zipped[o], 0, 0, NoWork, FALSE)
    /\ UNCHANGED <<now, env, obsVars, stationVars, tleVars,
                   arch, demod, pushes, sync, ziplock, zip, zipped, hook,
                   rateQ, rates, trc, sats>>

\* a worker takes a queued task; lines 45-49: the lock is taken, or the
\* task returns
ZipStart(o) ==
    /\ zip[o] # "writing"
    /\ zipQ[o] > 0
    /\ zipQ' = [zipQ EXCEPT ![o] = @ - 1]
    /\ LET key == ZipRange(ZipGroup(o))
           got == CacheAdd(ziplock[key], now)
       IN  /\ ziplock' = IF got
                         THEN [ziplock EXCEPT ![key] = now + ZIP_AUDIO_LOCK_EXPIRATION]
                         ELSE ziplock
           /\ zip' = [zip EXCEPT ![o] = IF got THEN "writing" ELSE "skipped"]
           /\ ev' = Event("zipstart", o, FALSE, ~got, zipped[o], 0, 0, NoWork, FALSE)
    /\ UNCHANGED <<now, env, obsVars, stationVars, tleVars,
                   arch, demod, pushes, sync, zipped, hook,
                   rateQ, rates, trc, sats>>

\* lines 50-54: the file is written, audio_zipped is set, the entry deleted
ZipFinish(o) ==
    /\ zip[o] = "writing"
    /\ zip' = [zip EXCEPT ![o] = "done"]
    /\ zipped' = [zipped EXCEPT ![o] = TRUE]
    /\ ziplock' = [ziplock EXCEPT ![ZipRange(ZipGroup(o))] = 0]
    /\ ev' = Event("zipfinish", o, FALSE, FALSE, zipped[o], 0, 0, NoWork, FALSE)
    /\ UNCHANGED <<now, env, obsVars, stationVars, tleVars,
                   arch, demod, pushes, sync, hook, auxVars>>

\* zip_file.write raises (the audio file is gone): the entry stays until it
\* expires
ZipFail(o) ==
    /\ zip[o] = "writing"
    /\ zip' = [zip EXCEPT ![o] = "failed"]
    /\ ev' = Event("zipfail", o, FALSE, TRUE, zipped[o], 0, 0, NoWork, FALSE)
    /\ UNCHANGED <<now, env, obsVars, stationVars, tleVars,
                   arch, demod, pushes, sync, ziplock, zipped, hook, auxVars>>

(***************************************************************************)
(* The post-save hook next to a writer in another process.  hook holds the *)
(* save whose first receiver has evaluated its vet condition as true and   *)
(* has not yet written: its world, its receiver and the receivers the      *)
(* send has still to call.                                                 *)
(***************************************************************************)
\* the condition of the vet step of a receiver
AutoVet(name, inst, n) ==
    IF name = "sig" THEN SigAutoVet(inst, n) ELSE ModAutoVet(inst, n)

\* a stored observation is saved again; the row is written, post_save is
\* sent and the first receiver comes to its vet step with the condition true
HookReachesVet(o) ==
    /\ hook = <<>>
    /\ obs[o].exists
    /\ obsRecv # <<>>
    /\ LET name == Head(obsRecv)
           c == [n |-> frames[o], t |-> StationTesting(obs[o].ground_station),
                 tagfail |-> FALSE, e |-> env, tm |-> now]
           w0 == [NewWorld(obs[o], obs[o], file[o], obsRecv) EXCEPT !.nsaves = 1]
           w1 == Enter(w0, name)
           w2 == IF name = "sig" THEN SigAudioStep(w1, c) ELSE w1
       IN  /\ ~w2.raised
           /\ AutoVet(name, w2.inst, c.n)
           /\ archQ[o] + w2.enq <= MaxQueue
           /\ hook' = <<[o |-> o, name |-> name, w |-> w2, todo |-> Tail(obsRecv)]>>
           /\ obs' = [obs EXCEPT ![o] = w2.db]
           /\ file' = [file EXCEPT ![o] = w2.f]
           /\ obsRecv' = w2.recv
           /\ archQ' = [archQ EXCEPT ![o] = @ + w2.enq]
           /\ ev' = Event("hookread", o, FALSE, FALSE, w2.inst, obs[o], frames[o],
                          ObsWork(w2), FALSE)
    /\ UNCHANGED <<now, env, frames, uploads, stationVars, tleVars,
                   arch, demod, pushes, sync, ziplock, zip, zipped, auxVars>>

\* a writer in another process commits a manual vet of the observation
OtherWriterVets(o, status, user) ==
    /\ hook # <<>>
    /\ hook[1].o = o
    /\ obs[o].vetted_user = None
    /\ status \in OBSERVATION_STATUSES \ {"unknown"}
    /\ obs' = [obs EXCEPT ![o] = [@ EXCEPT !.vetted_status = status,
                                           !.vetted_user = user,
                                           !.vetted_datetime = now]]
    /\ ev' = Event("othervet", o, FALSE, FALSE, obs[o], obs[o], frames[o],
                   NoWork, FALSE)
    /\ UNCHANGED <<now, env, frames, file, obsRecv, archQ, uploads, stationVars,
                   tleVars, taskVars>>

\* the receiver goes on: vetted_status = 'good', vetted_datetime = now(),
\* instance.save(), post_save.connect; then the send calls the receivers
\* that are left
HookVetSaves ==
    /\ hook # <<>>
    /\ LET h == hook[1]
           o == h.o
           c == [n |-> frames[o], t |-> StationTesting(h.w.inst.ground_station),
                 tagfail |-> FALSE, e |-> env, tm |-> now]
           w3 == VetStep([h.w EXCEPT !.db = obs[o], !.f = file[o]], TRUE, c)
           w4 == Leave(Reconnect(w3, h.name), h.name)
           w == ObsDispatch(w4, h.todo, FALSE, c)
       IN  /\ archQ[o] + w.enq - h.w.enq <= MaxQueue
           /\ obs' = [obs EXCEPT ![o] = w.db]
           /\ file' = [file EXCEPT ![o] = w.f]
           /\ obsRecv' = w.recv
           /\ archQ' = [archQ EXCEPT ![o] = @ + w.enq - h.w.enq]
           /\ ev' = Event("hookvet", o, FALSE, w.raised, h.w.inst, obs[o], frames[o],
                          ObsWork(w), FALSE)
    /\ hook' = <<>>
    /\ UNCHANGED <<now, env, frames, uploads, stationVars, tleVars,
                   arch, demod, pushes, sync, ziplock, zip, zipped, auxVars>>

(***************************************************************************)
(* The catalog (SatNOGS DB) and fetch_data.  url_empty: the configured     *)
(* endpoint URL is blank; http: "ok", or "error" when requests.get raises  *)
(* RequestException; data: the name the catalog holds for each satellite   *)
(* ("none": the satellite is not in the response).                         *)
(***************************************************************************)
SatNames == {"ISS", "NOAA"}

NoSatellite == [exists |-> FALSE, name |-> "none"]

CatalogData == [SatIds -> SatNames \cup {"none"}]

NoData == [n \in SatIds |-> "none"]

\* transmitters_api_request(url): DBConnectionError on a blank URL and on a
\* failed request, the decoded response otherwise
TransmittersApiRequest(url_empty, http, data) ==
    IF url_empty \/ http = "error"
    THEN [raised |-> TRUE, data |-> NoData]
    ELSE [raised |-> FALSE, data |-> data]

\* a caller of db_api.py makes a request
CatalogRequest(url_empty, http, data) ==
    /\ ev' = Event("apirequest", 0, FALSE,
                   TransmittersApiRequest(url_empty, http, data).raised,
                   [url_empty |-> url_empty, http |-> http],
                   TransmittersApiRequest(url_empty, http, data).data,
                   0, NoWork, FALSE)
    /\ UNCHANGED <<now, env, obsVars, stationVars, tleVars, taskVars>>

\* the loop of fetch_data: a satellite of the response is updated, or added
Upsert(rows, data) ==
    [n \in SatIds |-> IF data[n] = "none" THEN rows[n]
                      ELSE [exists |-> TRUE, name |-> data[n]]]

\* fetch_data(): returns on a blank URL; requests.get is called outside any
\* try block, so a failed request ends the task with the exception
FetchData(url_empty, http, data) ==
    /\ sats' = IF url_empty \/ http = "error" THEN sats ELSE Upsert(sats, data)
    /\ ev' = Event("fetchdata", 0, FALSE, ~url_empty /\ http = "error",
                   [url_empty |-> url_empty, http |-> http], sats, 0, NoWork, FALSE)
    /\ UNCHANGED <<now, env, obsVars, stationVars, tleVars,
                   arch, demod, pushes, sync, ziplock, zip, zipped, hook,
                   zipQ, rateQ, rates, trc>>

(***************************************************************************)
(* Cached aggregates.  A cache entry holds a value until the clock reaches *)
(* its expiry; cache.get gives None for a key with no live entry.  All     *)
(* observations are of the one transmitter of the model.                   *)
(***************************************************************************)
\* cache.set(key, rate) of Station.success_rate: the backend's default
\* timeout (300 s), in clock units
CACHE_DEFAULT_TIMEOUT == 1
\* cache.set(key, data, 3600) of the Transmitter properties
TRANSMITTER_CACHE_TIMEOUT == 12
\* cache.set(key, rate, 60 * 60 * 2) of stations_cache_rates
RATES_TASK_TIMEOUT == 24
\* rate = False: the station has no vetted observation outside testing
NoRate == -1

NoEntry == [set |-> FALSE, value |-> 0, expires |-> 0]

Entry(value, expires) == [set |-> TRUE, value |-> value, expires |-> expires]

\* cache.get(key) is not None
Hit(entry, tm) == entry.set /\ tm < entry.expires

\* int(100 * (float(a) / float(b)))
Percent(a, b) == (100 * a) \div b

\* self.observations.exclude(testing=True).exclude(vetted_status="unknown")
Considered(rows, s) ==
    {o \in ObsIds : /\ rows[o].exists /\ rows[o].ground_station = s
                    /\ ~rows[o].testing /\ rows[o].vetted_status # "unknown"}

\* observations.filter(id__in=(o.id for o in observations if o.is_good or o.is_bad))
Successful(rows, s) ==
    {o \in Considered(rows, s) : rows[o].vetted_status \in {"good", "bad"}}

\* the rate Station.success_rate and stations_cache_rates compute
StationRate(rows, s) ==
    IF Considered(rows, s) = {} THEN NoRate
    ELSE Percent(Cardinality(Successful(rows, s)), Cardinality(Considered(rows, s)))

\* Station.success_rate: `if not rate` also takes a cached 0 for a miss
ReadSuccessRate(s) ==
    /\ station[s].exists
    /\ LET hit == Hit(rates[s], now) /\ rates[s].value # 0
           rate == IF hit THEN rates[s].value ELSE StationRate(obs, s)
       IN  /\ rates' = IF ~hit /\ rate # NoRate
                       THEN [rates EXCEPT ![s] = Entry(rate, now + CACHE_DEFAULT_TIMEOUT)]
                       ELSE rates
           /\ ev' = Event("readrate", s, FALSE, FALSE, hit, rate, 0, NoWork, FALSE)
    /\ UNCHANGED <<now, env, obsVars, stationVars, tleVars,
                   arch, demod, pushes, sync, ziplock, zip, zipped, hook,
                   zipQ, rateQ, trc, sats>>

\* stations_cache_rates(): the rate of every station with vetted
\* observations outside testing is computed and cached for two hours
StationsCacheRates ==
    /\ \E s \in StationIds : station[s].exists
    /\ rates' = [s \in StationIds |->
                    IF station[s].exists /\ StationRate(obs, s) # NoRate
                    THEN Entry(StationRate(obs, s), now + RATES_TASK_TIMEOUT)
                    ELSE rates[s]]
    /\ ev' = Event("cacherates", 0, FALSE, FALSE, 0, 0, 0, NoWork, FALSE)
    /\ UNCHANGED <<now, env, obsVars, stationVars, tleVars,
                   arch, demod, pushes, sync, ziplock, zip, zipped, hook,
                   zipQ, rateQ, trc, sats>>

\* the keys 'tr-<uuid>-<kind>-count' and 'tr-<uuid>-<kind>-rate'
TransmitterKinds == {"suc", "bad", "unk"}

TransmitterKeys == TransmitterKinds \X {"count", "rate"}

\* the vetted_status good_count, bad_count and unvetted_count filter on
CountedStatus(kind) ==
    IF kind = "suc" THEN "good" ELSE IF kind = "bad" THEN "bad" ELSE "unknown"

\* Observation.objects.filter(transmitter=self).filter(vetted_status=...).count()
TransmitterCount(rows, kind) ==
    Cardinality({o \in ObsIds : /\ rows[o].exists
                                /\ rows[o].vetted_status = CountedStatus(kind)})

\* Transmitter.data_count
DataCount(rows) ==
    Cardinality({o \in ObsIds : rows[o].exists /\ rows[o].vetted_status # "failed"})

\* good_count, bad_count, unvetted_count: the value returned and the cache
CountRead(c, rows, kind, tm) ==
    IF Hit(c[<<kind, "count">>], tm)
    THEN [value |-> c[<<kind, "count">>].value, cache |-> c]
    ELSE [value |-> TransmitterCount(rows, kind),
          cache |-> [c EXCEPT ![<<kind, "count">>] =
                        Entry(TransmitterCount(rows, kind),
                              tm + TRANSMITTER_CACHE_TIMEOUT)]]

\* the rate computed from counts: 0 on ZeroDivisionError
RateOf(count, data) == IF data = 0 THEN 0 ELSE Percent(count, data)

\* success_rate, bad_rate, unvetted_rate: the count is read through its own
\* cached property before the division
RateRead(c, rows, kind, tm) ==
    IF Hit(c[<<kind, "rate">>], tm)
    THEN [value |-> c[<<kind, "rate">>].value, cache |-> c]
    ELSE LET cr == CountRead(c, rows, kind, tm)
             rate == RateOf(cr.value, DataCount(rows))
         IN  [value |-> rate,
              cache |-> [cr.cache EXCEPT ![<<kind, "rate">>] =
                            Entry(rate, tm + TRANSMITTER_CACHE_TIMEOUT)]]

\* a page reads one of the six cached properties of the transmitter
ReadTransmitter(key) ==
    /\ \E o \in ObsIds : obs[o].exists
    /\ LET r == IF key[2] = "count" THEN CountRead(trc, obs, key[1], now)
                ELSE RateRead(trc, obs, key[1], now)
       IN  /\ trc' = r.cache
           /\ ev' = Event("readtr", 0, FALSE, FALSE, key, r.value, 0, NoWork, FALSE)
    /\ UNCHANGED <<now, env, obsVars, stationVars, tleVars,
                   arch, demod, pushes, sync, ziplock, zip, zipped, hook,
                   zipQ, rateQ, rates, sats>>

(***************************************************************************)
(* The id ranges observations are stored under: the archive.org item of    *)
(* archive_audio, and the zip file and lock key of zip_audio.  Numbers are *)
(* formatted as sequences of decimal digits.                               *)
(***************************************************************************)
\* str(n).zfill(9)
ZFILL_WIDTH == 9

MaxBuckets == 2

RECURSIVE Digits(_), Zfill(_, _)
\* str(n) for n >= 0
Digits(n) == IF n < 10 THEN <<n>> ELSE Digits(n \div 10) \o <<n % 10>>

\* s.zfill(width): zeros on the left up to the width, nothing cut
Zfill(s, width) == IF Len(s) >= width THEN s ELSE Zfill(<<0>> \o s, width)

ObsThousandFloor(obs_id) == (obs_id \div ARCHIVE_BUCKET) * ARCHIVE_BUCKET

\* obs_thousand = ((obs_id - 1) // 1000) * 1000
ObsThousand(obs_id) == ((obs_id - 1) \div ARCHIVE_BUCKET) * ARCHIVE_BUCKET

\* (range_from, range_to)
ArchiveRange(obs_id) ==
    <<ObsThousand(obs_id) + 1, ObsThousand(obs_id) + ARCHIVE_BUCKET>>

\* '{0}-{1}'.format(str(a).zfill(9), str(b).zfill(9)): the two parts
RangeName(r) == <<Zfill(Digits(r[1]), ZFILL_WIDTH), Zfill(Digits(r[2]), ZFILL_WIDTH)>>

\* item_id = 'satnogs{suffix}-observations-{obs_range}'
ItemId(obs_id) == RangeName(ArchiveRange(obs_id))

\* cache_key = 'ziplock-{0}-{1}'.format(group_range[0], group_range[1])
ZipCacheKey(observation_id) ==
    <<Digits(ZipRange(ZipGroup(observation_id))[1]),
      Digits(ZipRange(ZipGroup(observation_id))[2])>>

\* zip_filename = '{prefix}-{zip_range}.zip'
ZipFilename(observation_id) == RangeName(ZipRange(ZipGroup(observation_id)))

\* ids at both ends of the first ranges
BucketIds ==
    {b * ARCHIVE_BUCKET + d : b \in 0..MaxBuckets, d \in {1, 2, ARCHIVE_BUCKET - 1,
                                                         ARCHIVE_BUCKET}}
        \cup 1..(MaxBuckets * AUDIO_FILES_PER_ZIP + 1)

\* the identifiers computed for two observation ids
Buckets(n, m) ==
    /\ ev' = Event("bucket", n, FALSE, FALSE, m,
                   [range |-> <<ArchiveRange(n), ArchiveRange(m)>>,
                    item |-> <<ItemId(n), ItemId(m)>>,
                    zrange |-> <<ZipRange(ZipGroup(n)), ZipRange(ZipGroup(m))>>,
                    key |-> <<ZipCacheKey(n), ZipCacheKey(m)>>,
                    file |-> <<ZipFilename(n), ZipFilename(m)>>],
                   0, NoWork, FALSE)
    /\ UNCHANGED <<now, env, obsVars, stationVars, tleVars, taskVars>>

(***************************************************************************)
(* Initial states.  models.py connects its receivers while it is imported, *)
(* and signals.py imports models.py before it connects its own, so the     *)
(* receivers of models.py come first.                                      *)
(***************************************************************************)
ThreeReceivers == <<"mod", "sig", "dup">>

\* models.py connects first, signals.py second
RegisteredReceivers == <<"mod", "sig">>

InitEvent == Event("init", 0, FALSE, FALSE, 0, 0, 0, NoWork, FALSE)

InitObsTables ==
    /\ obs = [o \in ObsIds |-> NoObservation]
    /\ frames = [o \in ObsIds |-> 0]
    /\ file = [o \in ObsIds |-> "absent"]
    /\ obsRecv = RegisteredReceivers
    /\ archQ = [o \in ObsIds |-> 0]
    /\ uploads = [o \in ObsIds |-> 0]

InitTaskTables ==
    /\ arch = [k \in Workers |-> IdleArchive]
    /\ demod = [f \in FrameIds |-> NoFrame]
    /\ pushes = [f \in FrameIds |-> 0]
    /\ sync = [k \in Workers |-> IdleSync]
    /\ ziplock = [g \in ZipRanges |-> 0]
    /\ zip = [o \in ObsIds |-> "idle"]
    /\ zipped = [o \in ObsIds |-> FALSE]
    /\ hook = <<>>
    /\ zipQ = [o \in ObsIds |-> 0]
    /\ rateQ = [o \in ObsIds |-> 0]
    /\ rates = [s \in StationIds |-> NoEntry]
    /\ trc = [key \in TransmitterKeys |-> NoEntry]
    /\ sats = [n \in SatIds |-> NoSatellite]

InitStationTables ==
    /\ station = [s \in StationIds |-> NoStationRow]
    /\ logs = [s \in StationIds |-> <<>>]
    /\ stRecv = RegisteredReceivers

\* observations are taken at a registered station, in testing or not
InitObs ==
    /\ now = 1
    /\ env \in Environments
    /\ InitObsTables
    /\ \E testing \in BOOLEAN :
           station = [s \in StationIds |-> NewStation(testing, None, 0)]
    /\ logs = [s \in StationIds |-> <<0>>]
    /\ stRecv = RegisteredReceivers
    /\ link = [o \in ObsIds |-> NoLink]
    /\ tles = <<>>
    /\ pending = {}
    /\ InitTaskTables
    /\ ev = InitEvent

InitStation ==
    /\ now = 1
    /\ env = "production"
    /\ InitObsTables
    /\ InitStationTables
    /\ link = [o \in ObsIds |-> NoLink]
    /\ tles = <<>>
    /\ pending = {}
    /\ InitTaskTables
    /\ ev = InitEvent

InitTle ==
    /\ now = 1
    /\ env = "production"
    /\ InitObsTables
    /\ InitStationTables
    /\ link = [o \in ObsIds |-> NoLink]
    /\ tles = <<>>
    /\ pending = {}
    /\ InitTaskTables
    /\ ev = InitEvent

NextObs ==
    \/ \E o \in Watched, gs \in StationIds \cup {NoStation}, mode \in Modes,
          status \in OBSERVATION_STATUSES : CreateObservation(o, gs, mode, status)
    \/ \E o \in Watched, kind \in FileKinds, tagfail \in BOOLEAN :
           UploadPayload(o, kind, tagfail)
    \/ \E o \in Watched : AttachDemodData(o)
    \/ \E o \in Watched, status \in OBSERVATION_STATUSES, user \in Users,
          tagfail \in BOOLEAN : ManualVet(o, status, user, tagfail)
    \/ \E o \in Watched, tagfail \in BOOLEAN : ResaveObservation(o, tagfail)
    \/ \E o \in Watched, result \in {"ok", "status", "error"} : ArchiveAudio(o, result)
    \/ Tick

NextStation ==
    \/ \E s \in StationIds, testing \in BOOLEAN, last_seen \in 0..MaxTime,
          status \in 0..2 : CreateStation(s, testing, last_seen, status)
    \/ \E s \in StationIds : Heartbeat(s)
    \/ \E s \in StationIds, testing \in BOOLEAN, status \in 0..2 :
           EditStation(s, testing, status)
    \/ StationStatusUpdate
    \/ Tick

NextTle ==
    \/ \E o \in ObsIds : \E sat \in {x \in SatIds : x <= o},
          start \in 1..(MaxTime + TLE_BUFFER + 1) : ScheduleObservation(o, sat, start)
    \/ \E sat \in TleSats : TleStamp(sat)
    \/ \E p \in [satellite : SatIds, updated : 1..MaxTime] : TleInsert(p)
    \/ \E failed \in BOOLEAN, tle_sets \in [SatIds -> TleSets] :
           UpdateFutureObservationsWithNewTleSets(failed, tle_sets)
    \/ Tick

\* observations in production, their audio uploaded and archived by workers
InitArchive ==
    /\ InitObs
    /\ env = "production"

NextArchive ==
    \/ \E o \in Watched, mode \in Modes : CreateObservation(o, 1, mode, "unknown")
    \/ \E o \in Watched, kind \in {"valid", "short"} : UploadPayload(o, kind, FALSE)
    \/ \E o \in Watched : AttachDemodData(o)
    \/ \E o \in Watched : ResaveObservation(o, FALSE)
    \/ \E old \in SUBSET Watched : CleanObservations(old)
    \/ \E k \in Workers, o \in Watched : ArchiveRead(k, o)
    \/ \E k \in Workers, result \in {"ok", "status", "error"} : ArchiveUpload(k, result)
    \/ \E k \in Workers : ArchiveSave(k)
    \/ \E k \in Workers : ArchiveCrash(k)

NextSync ==
    \/ \E f \in PairedFrames, mode \in Modes, flagged \in BOOLEAN,
          kind \in FrameKinds : CreateFrame(f, mode, flagged, kind)
    \/ \E k \in Workers, frame_id \in {0} \cup PairedFrames : SyncStart(k, frame_id)
    \/ \E k \in Workers, result \in {"ok", "neterr"} : SyncStep(k, result)

NextZip ==
    \/ \E o \in ObsIds : ZipRequest(o)
    \/ \E o \in ObsIds : ZipStart(o)
    \/ \E o \in ObsIds : ZipFinish(o)
    \/ \E o \in ObsIds : ZipFail(o)
    \/ Tick

NextRace ==
    \/ \E o \in Watched, mode \in Modes, status \in OBSERVATION_STATUSES :
           hook = <<>> /\ CreateObservation(o, 1, mode, status)
    \/ \E o \in Watched : hook = <<>> /\ AttachDemodData(o)
    \/ \E o \in Watched : HookReachesVet(o)
    \/ \E o \in Watched, status \in OBSERVATION_STATUSES, user \in Users :
           OtherWriterVets(o, status, user)
    \/ HookVetSaves
    \/ Tick

\* observations and their station outside production
InitHooks ==
    /\ InitObs
    /\ env = "stage"

\* observations and their station, both saved and edited
NextHooks ==
    \/ \E o \in Watched, gs \in StationIds \cup {NoStation}, mode \in Modes,
          status \in {"unknown", "bad"} : CreateObservation(o, gs, mode, status)
    \/ \E o \in Watched, kind \in {"valid", "short"} : UploadPayload(o, kind, FALSE)
    \/ \E o \in Watched : AttachDemodData(o)
    \/ \E o \in Watched : ResaveObservation(o, FALSE)
    \/ \E s \in StationIds : Heartbeat(s)
    \/ \E s \in StationIds, testing \in BOOLEAN : EditStation(s, testing, station[s].status)
    \/ StationStatusUpdate
    \/ Tick

\* the audio validation of the post_save receiver and of process_audio
NextAudio ==
    \/ \E o \in Watched, mode \in Modes : CreateObservation(o, 1, mode, "unknown")
    \/ \E o \in Watched, kind \in FileKinds, tagfail \in BOOLEAN :
           UploadPayload(o, kind, tagfail)
    \/ \E o \in Watched : AttachDemodData(o)
    \/ \E o \in Watched, tagfail \in BOOLEAN : ResaveObservation(o, tagfail)
    \/ \E o \in Watched, result \in {"ok", "error"} : ArchiveAudio(o, result)
    \/ \E o \in Watched, tagfail \in BOOLEAN : ProcessAudio(o, tagfail)

SpecAudio == InitObs /\ [][NextAudio]_vars

\* the cached aggregates of a station and of a transmitter, read between
\* creations and vettings of the observations they are computed from
ReadKeys == {<<"suc", "count">>, <<"suc", "rate">>}

InitRates ==
    /\ InitObs
    /\ env = "stage"

NextRates ==
    \/ \E o \in ObsIds, status \in {"unknown", "good"} :
           CreateObservation(o, 1, "FM", status)
    \/ \E o \in Watched, status \in OBSERVATION_STATUSES, user \in Users :
           ManualVet(o, status, user, FALSE)
    \/ \E s \in StationIds : ReadSuccessRate(s)
    \/ StationsCacheRates
    \/ \E key \in ReadKeys : ReadTransmitter(key)
    \/ Tick

SpecRates == InitRates /\ [][NextRates]_vars

\* the tasks that read the catalog, with requests that fail
NextCatalog ==
    \/ \E o \in ObsIds : \E sat \in {x \in SatIds : x <= o},
          start \in 1..(MaxTime + TLE_BUFFER + 1) : ScheduleObservation(o, sat, start)
    \/ \E failed \in BOOLEAN, tle_sets \in [SatIds -> TleSets] :
           UpdateFutureObservationsWithNewTleSets(failed, tle_sets)
    \/ \E url_empty \in BOOLEAN, http \in {"ok", "error"}, data \in CatalogData :
           CatalogRequest(url_empty, http, data)
    \/ \E url_empty \in BOOLEAN, http \in {"ok", "error"}, data \in CatalogData :
           FetchData(url_empty, http, data)

SpecCatalog == InitTle /\ [][NextCatalog]_vars

\* one periodic run at a time over three frames
NextSyncRun ==
    \/ \E f \in FrameIds, kind \in FrameKinds : CreateFrame(f, "FM", TRUE, kind)
    \/ SyncStart(1, 0)
    \/ \E result \in {"ok", "neterr"} : SyncStep(1, result)

SpecSyncRun == InitStation /\ [][NextSyncRun]_vars

\* zip_audio tasks whose writes succeed, each queued task taken by a worker
\* and each started write run to its end
NextZipFair ==
    \/ \E o \in ObsIds : ZipRequest(o)
    \/ \E o \in ObsIds : ZipStart(o)
    \/ \E o \in ObsIds : ZipFinish(o)
    \/ Tick

SpecZipFair ==
    /\ InitStation
    /\ [][NextZipFair]_vars
    /\ \A o \in ObsIds : WF_vars(ZipStart(o)) /\ WF_vars(ZipFinish(o))

NextBucket == \E n \in BucketIds, m \in BucketIds : Buckets(n, m)

SpecBucket == InitStation /\ [][NextBucket]_vars

\* the sweep of old observations and deletions, next to uploads and the
\* archive_audio task
NextClean ==
    \/ \E o \in Watched, status \in {"unknown", "good"} :
           CreateObservation(o, 1, "FM", status)
    \/ \E o \in Watched, kind \in {"valid", "short"} : UploadPayload(o, kind, FALSE)
    \/ \E o \in Watched : ArchiveRead(1, o)
    \/ \E result \in {"ok", "error"} : ArchiveUpload(1, result)
    \/ ArchiveSave(1)
    \/ ArchiveCrashAfterDelete(1)
    \/ \E old \in SUBSET Watched : CleanObservations(old)
    \/ \E o \in Watched, waterfall \in {"none", "file", "gone"},
          race \in {"none", "payload", "waterfall"} :
           DeleteObservation(o, waterfall, race)

SpecClean == InitObs /\ [][NextClean]_vars

(***************************************************************************)
(* The receivers of models.py and of signals.py, each connected alone and  *)
(* given the same save: the same instance, DemodData count, created flag,  *)
(* station and file on disk.                                               *)
(***************************************************************************)
\* a comparison reads its inputs, the clock and the station only: one is
\* made from each state that no comparison has led to
Fresh == ev.op \in {"init", "tick"}

HookResult(w) ==
    [testing |-> w.db.testing, vetted_status |-> w.db.vetted_status,
     vetted_datetime |-> w.db.vetted_datetime, payload |-> w.db.payload,
     raised |-> w.raised, nsaves |-> w.nsaves]

CompareObservationHooks(o, inst, f, n, created, tagfail) ==
    LET c == [n |-> n, t |-> StationTesting(inst.ground_station),
              tagfail |-> tagfail, e |-> env, tm |-> now]
        db == IF created THEN NoObservation ELSE inst
        wm == ObsSave(NewWorld(inst, db, f, <<"mod">>), created, c)
        ws == ObsSave(NewWorld(inst, db, f, <<"sig">>), created, c)
    IN  /\ Fresh
        /\ inst.payload => ~inst.archived
        /\ f # "absent" => inst.payload
        /\ created => n = 0
        /\ ev' = [Event("hooks", o, created, wm.raised, inst,
                        [mod |-> HookResult(wm), sig |-> HookResult(ws)], n,
                        NoWork, ws.raised) EXCEPT !.f = f]
        /\ UNCHANGED <<now, env, obsVars, stationVars, tleVars, taskVars>>

StationHookResult(w) == [status |-> w.db.status, rows |-> Len(w.log)]

CompareStationHooks(s, inst, created) ==
    LET db == IF created THEN NoStationRow ELSE inst
        wm == StationSave(NewStationWorld(inst, db, <<"mod">>, <<>>), created, now)
        ws == StationSave(NewStationWorld(inst, db, <<"sig">>, <<>>), created, now)
    IN  /\ Fresh
        /\ ev' = Event("sthooks", s, created, FALSE, inst,
                       [mod |-> StationHookResult(wm), sig |-> StationHookResult(ws)],
                       0, NoWork, FALSE)
        /\ UNCHANGED <<now, env, obsVars, stationVars, tleVars, taskVars>>

\* the instances a save can hand to the receivers
SavedObservation(o, gs, mode, status, archived, payload, testing, dt) ==
    LET row == NewObservation(gs, mode, status)
        base == IF archived THEN MarkArchived(row, o) ELSE row
    IN  [base EXCEPT !.payload = payload, !.testing = testing,
                     !.vetted_datetime = dt]

SavedObservations(o) ==
    {SavedObservation(o, gs, mode, status, archived, payload, testing, dt) :
        gs \in StationIds \cup {NoStation}, mode \in Modes,
        status \in OBSERVATION_STATUSES, archived \in BOOLEAN,
        payload \in BOOLEAN, testing \in BOOLEAN, dt \in {None, now}}

NextEquiv ==
    \/ \E o \in Watched : \E inst \in SavedObservations(o),
          f \in {"absent", "valid", "short"}, n \in 0..MaxFrames,
          created \in BOOLEAN, tagfail \in BOOLEAN :
           CompareObservationHooks(o, inst, f, n, created, tagfail)
    \/ \E s \in StationIds, testing \in BOOLEAN, last_seen \in 0..MaxTime,
          status \in 0..2, created \in BOOLEAN :
           CompareStationHooks(s, NewStation(testing, last_seen, status), created)
    \/ Tick

SpecEquiv == InitObs /\ [][NextEquiv]_vars

(***************************************************************************)
(* Two writers in one process.  post_save is one Signal object of the      *)
(* process: the receiver list a save of one observation dispatches to is   *)
(* the list as the hook of another observation has left it.                *)
(***************************************************************************)
\* an observation is created at a testing station; the receiver of models.py
\* has run, the receiver of signals.py has disconnected itself, has checked
\* the audio and is about to write the testing mark (lines 26-43)
SigReachesTestingSave(o, mode, status) ==
    /\ hook = <<>>
    /\ ~obs[o].exists
    /\ obsRecv = RegisteredReceivers
    /\ LET inst == NewObservation(1, mode, status)
           c == [n |-> frames[o], t |-> StationTesting(inst.ground_station),
                 tagfail |-> FALSE, e |-> env, tm |-> now]
           w0 == [NewWorld(inst, inst, file[o], obsRecv) EXCEPT !.nsaves = 1]
           wm == ObsReceiver("mod", w0, TRUE, c)
           ws == SigAudioStep(Enter(wm, "sig"), c)
       IN  /\ c.t = "testing"
           /\ ~ws.raised
           /\ hook' = <<[o |-> o, name |-> "sig", w |-> ws, todo |-> <<>>]>>
           /\ obs' = [obs EXCEPT ![o] = ws.db]
           /\ file' = [file EXCEPT ![o] = ws.f]
           /\ obsRecv' = ws.recv
           /\ ev' = Event("sigread", o, TRUE, FALSE, inst, obs[o], frames[o],
                          ObsWork(ws), FALSE)
    /\ UNCHANGED <<now, env, frames, archQ, uploads, stationVars, tleVars,
                   arch, demod, pushes, sync, ziplock, zip, zipped, auxVars>>

\* the receiver of signals.py goes on: testing = True, instance.save(), the
\* vet step, post_save.connect (lines 42-49)
SigTestingSaves ==
    /\ hook # <<>>
    /\ hook[1].name = "sig"
    /\ LET h == hook[1]
           o == h.o
           c == [n |-> frames[o], t |-> StationTesting(h.w.inst.ground_station),
                 tagfail |-> FALSE, e |-> env, tm |-> now]
           w1 == [h.w EXCEPT !.db = obs[o], !.f = file[o], !.recv = obsRecv]
           w2 == TestingStep(w1, TRUE, c)
           w3 == VetStep(w2, SigAutoVet(w2.inst, c.n), c)
           w == Leave(Reconnect(w3, h.name), h.name)
       IN  /\ obs' = [obs EXCEPT ![o] = w.db]
           /\ file' = [file EXCEPT ![o] = w.f]
           /\ obsRecv' = w.recv
           /\ ev' = Event("sigsave", o, TRUE, w.raised, h.w.inst, obs[o], frames[o],
                          ObsWork(w), FALSE)
    /\ hook' = <<>>
    /\ UNCHANGED <<now, env, frames, archQ, uploads, stationVars, tleVars,
                   arch, demod, pushes, sync, ziplock, zip, zipped, auxVars>>

\* the observations another writer of the process saves meanwhile
Concurrent == ObsIds \ Watched

NextThreads ==
    \/ \E o \in Watched, mode \in Modes, status \in {"unknown", "good"} :
           SigReachesTestingSave(o, mode, status)
    \/ SigTestingSaves
    \/ \E o \in Concurrent, mode \in Modes : CreateObservation(o, 1, mode, "unknown")
    \/ \E o \in Concurrent, kind \in {"valid", "short"} : UploadPayload(o, kind, FALSE)
    \/ \E o \in Concurrent : AttachDemodData(o)
    \/ \E o \in Concurrent : ResaveObservation(o, FALSE)
    \/ Tick

SpecThreads == InitObs /\ [][NextThreads]_vars

\* archive_audio runs while a save of the same observation is in its hook
NextArchiveRace ==
    \/ \E o \in Watched, mode \in Modes :
           hook = <<>> /\ CreateObservation(o, 1, mode, "unknown")
    \/ \E o \in Watched, kind \in {"valid", "short"} :
           hook = <<>> /\ UploadPayload(o, kind, FALSE)
    \/ \E o \in Watched : hook = <<>> /\ AttachDemodData(o)
    \/ \E o \in Watched : HookReachesVet(o)
    \/ \E o \in Watched, result \in {"ok", "status", "error"} : ArchiveAudio(o, result)
    \/ HookVetSaves
    \/ Tick

SpecArchiveRace == InitObs /\ [][NextArchiveRace]_vars

SpecObs == InitObs /\ [][NextObs]_vars

SpecArchive == InitArchive /\ [][NextArchive]_vars

SpecSync == InitStation /\ [][NextSync]_vars

SpecZip == InitStation /\ [][NextZip]_vars

SpecRace == InitObs /\ [][NextRace]_vars

SpecHooks == InitHooks /\ [][NextHooks]_vars

SpecStation == InitStation /\ [][NextStation]_vars

SpecTle == InitTle /\ [][NextTle]_vars

(***************************************************************************)
(* Properties of the Observation post-save hook                            *)
(***************************************************************************)
\* the last operation saved an observation and the post-save receivers
\* connected at that time ran to their end
HookRan == ev.op \in {"create", "upload", "vet", "resave", "archive"}
               /\ ev.bodies > 0 /\ ~ev.raised

\* the last operation saved an observation and a post-save receiver started
HookStarted == ev.op \in {"create", "upload", "vet", "resave", "archive"}
                   /\ ev.bodies > 0

\* C1: after the post-save hook has run on an observation with at least one
\* DemodData frame and vetted_status = unknown, the observation is vetted
\* good with vetted_datetime set, unless its transmitter mode is CW, in
\* which case vetted_status and vetted_datetime are as they were.
C1_AutoVetUnlessExcluded ==
    (HookRan /\ ev.n >= 1 /\ ev.pre.vetted_status = "unknown")
        => IF ev.pre.transmitter_mode = "CW"
           THEN /\ obs[ev.id].vetted_status = "unknown"
                /\ obs[ev.id].vetted_datetime = ev.pre.vetted_datetime
           ELSE /\ obs[ev.id].vetted_status = "good"
                /\ obs[ev.id].vetted_datetime # None

\* C2: the hook changes no vetting field of an observation that is already
\* good, bad or failed when the hook starts, and it returns to the caller
\* without raising.
C2_VettedUntouchedNoRaise ==
    (HookStarted /\ ev.pre.vetted_status # "unknown")
        => /\ obs[ev.id].vetted_status = ev.pre.vetted_status
           /\ obs[ev.id].vetted_datetime = ev.pre.vetted_datetime
           /\ obs[ev.id].vetted_user = ev.pre.vetted_user
           /\ ~ev.raised

\* the stored row after the observation is saved once more, unchanged, at
\* clock time tm
RowAfterResave(o, tm) ==
    LET c == [n |-> frames[o], t |-> StationTesting(obs[o].ground_station),
              tagfail |-> FALSE, e |-> env, tm |-> tm]
    IN  ObsSave(NewWorld(obs[o], obs[o], file[o], obsRecv), FALSE, c).db

\* C3: once the hook has run on an observation, running it again on the same
\* observation, then or later, leaves the stored row as the first run left
\* it: no second vetting, no second time stamp.
C3_AutoVetIdempotent ==
    HookRan => \A tm \in now..MaxTime : RowAfterResave(ev.id, tm) = obs[ev.id]

\* the first run auto-vetted the observation at an earlier time than now
C3_Witness ==
    /\ HookRan /\ ev.op = "resave"
    /\ ev.pre.vetted_status = "good" /\ ev.pre.vetted_user = None
    /\ ev.pre.vetted_datetime # None /\ ev.pre.vetted_datetime < now
    /\ obs[ev.id] = ev.pre

StationSaved == ev.op \in {"stcreate", "stsave"}

\* C4: a Station save appends exactly one StationStatusLog row when it is the
\* station's creation or changes the stored status, and none otherwise; the
\* same holds for each save of the station_status_update sweep.
C4_OneLogRowPerStatusChange ==
    /\ StationSaved
         => ev.rows = IF ev.created \/ station[ev.id].status # ev.before.status
                      THEN 1 ELSE 0
    /\ ev.op = "sweep"
         => \A s \in StationIds :
               station[s].exists
                 => ev.rows[s] = IF station[s].status # ev.before[s].status
                                 THEN 1 ELSE 0

\* C5: after every Station save (creation, update, sweep) the stored status
\* is the status derived from last_seen, testing and the clock.
C5_StatusIsDerived ==
    /\ StationSaved => station[ev.id].status = DeriveStatus(station[ev.id], now)
    /\ ev.op = "sweep"
         => \A s \in StationIds :
               station[s].exists => station[s].status = DeriveStatus(station[s], now)

\* the derivation as the claim words it: offline when last_seen is absent or
\* more than the window ago
StatusOlderThanWindow(st, tm) ==
    IF st.last_seen = None \/ tm - st.last_seen > STATION_HEARTBEAT_TIME THEN 0
    ELSE IF st.testing THEN 1 ELSE 2

\* the derivation with the window's end counted as offline
StatusWindowElapsed(st, tm) ==
    IF st.last_seen = None \/ tm - st.last_seen >= STATION_HEARTBEAT_TIME THEN 0
    ELSE IF st.testing THEN 1 ELSE 2

\* C6 as claimed: the save hook and the sweep store Offline exactly when
\* last_seen is absent or now - last_seen is greater than the window,
\* otherwise Testing or Online by the testing flag.
C6_OfflineIffOlderThanWindow ==
    /\ ev.op = "stsave"
         => station[ev.id].status = StatusOlderThanWindow(station[ev.id], now)
    /\ ev.op = "sweep"
         => \A s \in StationIds :
               station[s].exists
                 => station[s].status = StatusOlderThanWindow(station[s], now)

\* C6 as amended: the save hook and the sweep store Offline exactly when
\* last_seen is absent or now - last_seen is at least the window, otherwise
\* Testing or Online by the testing flag.
C6_OfflineIffWindowElapsed ==
    /\ ev.op = "stsave"
         => station[ev.id].status = StatusWindowElapsed(station[ev.id], now)
    /\ ev.op = "sweep"
         => \A s \in StationIds :
               station[s].exists
                 => station[s].status = StatusWindowElapsed(station[s], now)

\* the sweep ran over a station last seen exactly one window ago
C6_Witness ==
    /\ ev.op = "sweep"
    /\ \E s \in StationIds :
          /\ station[s].exists /\ station[s].last_seen # None
          /\ now - station[s].last_seen = STATION_HEARTBEAT_TIME
          /\ ev.before[s].status = 2 /\ station[s].status = 0

(***************************************************************************)
(* Properties of TLE propagation                                           *)
(***************************************************************************)
TleFields(row) == <<row.tle, row.tle_updated, row.tle_lines>>

\* C7: no step changes the linked Tle or the TLE fields of an observation
\* whose start is in the past or within the buffer (start <= now + buffer).
C7_InBufferUntouched ==
    [][\A o \in ObsIds :
          (link[o].exists /\ link[o].start <= now + TLE_BUFFER)
             => TleFields(link'[o]) = TleFields(link[o])]_vars

\* the task updated an observation of a satellite and left alone another one
\* of the same satellite that starts within the buffer and carries an older set
C7_Witness ==
    /\ ev.op = "tletask" /\ ~ev.raised
    /\ \E o, o2 \in ObsIds :
          /\ link[o].exists /\ link[o2].exists
          /\ link[o].satellite = link[o2].satellite
          /\ link[o].start <= now + TLE_BUFFER
          /\ link[o].tle_updated < ev.pre[link[o].satellite].updated
          /\ link[o2].start > now + TLE_BUFFER
          /\ link[o2].tle_updated = ev.pre[link[o].satellite].updated
          /\ link[o2].tle_lines = 2

\* C8: a step changes the TLE set copied into an observation only to a set
\* with a strictly newer update timestamp, and changes the Tle row an
\* observation links only to a row with a strictly newer update timestamp.
C8_OnlyStrictlyNewer ==
    [][\A o \in ObsIds :
          link[o].exists
            => /\ <<link'[o].tle_updated, link'[o].tle_lines>>
                     # <<link[o].tle_updated, link[o].tle_lines>>
                  => link'[o].tle_updated > link[o].tle_updated
               /\ (link[o].tle # 0 /\ link'[o].tle # link[o].tle)
                  => tles'[link'[o].tle].updated > tles'[link[o].tle].updated]_vars

\* C9 as claimed: the task gives the fetched set to an observation that
\* starts one clock unit (5 minutes) from now and carries an older set.
C9_FiveMinutesAheadUpdated ==
    [][(ev'.op = "tletask" /\ ~ev'.raised)
          => \A o \in ObsIds :
                (/\ link[o].exists /\ link[o].start = now + 1
                 /\ ev'.pre[link[o].satellite] # NoTleSet
                 /\ ev'.pre[link[o].satellite].updated > link[o].tle_updated)
                   => /\ link'[o].tle_updated = ev'.pre[link[o].satellite].updated
                      /\ link'[o].tle_lines = ev'.pre[link[o].satellite].lines]_vars

\* C9 as amended: the task gives the fetched set to an observation that
\* starts after the buffer (more than 10 minutes from now) and carries an
\* older set.
C9_AfterBufferUpdated ==
    [][(ev'.op = "tletask" /\ ~ev'.raised)
          => \A o \in ObsIds :
                (/\ link[o].exists /\ link[o].start > now + TLE_BUFFER
                 /\ ev'.pre[link[o].satellite] # NoTleSet
                 /\ ev'.pre[link[o].satellite].updated > link[o].tle_updated)
                   => /\ link'[o].tle_updated = ev'.pre[link[o].satellite].updated
                      /\ link'[o].tle_lines = ev'.pre[link[o].satellite].lines]_vars

\* the task ran and an observation starting after the buffer now carries
\* the fetched set, newer than the set it was scheduled with
C9_Witness ==
    /\ ev.op = "tletask" /\ ~ev.raised
    /\ \E o \in ObsIds :
          /\ link[o].exists /\ link[o].start = now + TLE_BUFFER + 1
          /\ ev.pre[link[o].satellite] # NoTleSet
          /\ link[o].tle_updated = ev.pre[link[o].satellite].updated
          /\ link[o].tle_lines = 2

(***************************************************************************)
(* Properties of archival under concurrent workers                         *)
(***************************************************************************)
\* C11: over every interleaving of archive_audio executions, and over a
\* worker's death between the upload and the save, the audio of an
\* observation is uploaded successfully at most once.
C11_UploadedAtMostOnce == \A o \in ObsIds : uploads[o] <= 1

\* C12: when upload raises a transport or authentication error or returns a
\* status other than 200, the step changes no observation: archived,
\* archive_url, archive_identifier and the payload field stay as they were,
\* the payload file stays on disk, nothing counts as uploaded, and the
\* observation is as eligible for archival as before.
C12_FailedUploadChangesNothing ==
    [][(ev'.op = "archupload" /\ ev'.before # "ok")
          => /\ obs' = obs
             /\ file' = file
             /\ uploads' = uploads
             /\ \A k \in Workers : arch'[k].pc # "uploaded" \/ arch'[k] = arch[k]]_vars

\* an upload of an unarchived observation's audio failed, and the audio is
\* still there for the next attempt
C12_Witness ==
    /\ ev.op = "archupload" /\ ev.before \in {"status", "error"}
    /\ ~ev.raised /\ ~ev.uploaded
    /\ ~obs[ev.id].archived /\ obs[ev.id].payload /\ file[ev.id] = "valid"
    /\ obs[ev.id].archive_url = None /\ uploads[ev.id] = 0

(***************************************************************************)
(* Properties of the sync to the telemetry database                        *)
(***************************************************************************)
\* C13: copied_to_db of a frame becomes true only in the step that pushed
\* that frame with success; a push that failed with a network error leaves
\* the frame's row as it was, copied_to_db false; and a run over all frames
\* selects every stored frame with copied_to_db false and a mode that is not
\* excluded, so the frame is selected again by the next run.
C13_CopiedOnlyAfterPush ==
    [][/\ \A f \in FrameIds :
             (demod'[f].copied_to_db /\ ~demod[f].copied_to_db)
                => ev'.op = "push" /\ ev'.id = f /\ ev'.before = "ok"
       /\ (ev'.op = "push" /\ ev'.before = "neterr")
             => demod' = demod /\ pushes' = pushes
       /\ (ev'.op = "syncstart" /\ ev'.id = 0)
             => \A f \in FrameIds :
                   (/\ demod[f].exists /\ ~demod[f].copied_to_db
                    /\ demod[f].transmitter_mode \notin NOT_SYNCED_MODES)
                      => \E i \in 1..Len(ev'.pre) : ev'.pre[i] = f]_vars

\* a push of a stored frame failed with a network error: the frame was not
\* delivered, its copied_to_db is still false, and the filter selects it
C13_Witness ==
    /\ ev.op = "push" /\ ev.before = "neterr" /\ ~ev.uploaded
    /\ demod[ev.id].exists /\ ~demod[ev.id].copied_to_db /\ pushes[ev.id] = 0
    /\ SyncFrames(demod, 0) # <<>>
    /\ \E i \in 1..Len(SyncFrames(demod, 0)) : SyncFrames(demod, 0)[i] = ev.id

\* C14: each frame is delivered at most once, a frame whose stored
\* copied_to_db is true is never pushed, and copied_to_db never goes back
\* from true to false, over all interleavings of sync_to_db runs.
C14_PushedExactlyOnce ==
    [][/\ ev'.op = "push" => ~demod[ev'.id].copied_to_db
       /\ \A f \in FrameIds : demod[f].copied_to_db => demod'[f].copied_to_db
       /\ \A f \in FrameIds : pushes'[f] <= 1]_vars

\* C15: a frame is pushed only if its copied_to_db is false, the transmitter
\* of its observation is flagged for sync, and its transmitter mode is not
\* excluded.
C15_PushedOnlyIfSelected ==
    ev.op = "push"
        => /\ ~ev.pre.copied_to_db
           /\ ev.pre.sync_to_db
           /\ ev.pre.transmitter_mode \notin NOT_SYNCED_MODES

(***************************************************************************)
(* Properties of a run of the TLE task over several satellites            *)
(***************************************************************************)
\* C16: when the catalog request fails for a satellite asked for, or the
\* catalog holds no set for it, the run still gives every observation of
\* another satellite that starts after the buffer the set the catalog holds
\* for that satellite, if that set is strictly newer than the one it carries.
C16_OtherSatellitesUpdated ==
    [][ev'.op = "tletask"
          => \A sat \in NoradIdSet(link, now) :
                (ev'.raised \/ ev'.pre[sat] = NoTleSet)
                   => \A o \in ObsIds :
                         (/\ link[o].exists /\ link[o].satellite # sat
                          /\ StartsAfterBuffer(link[o].start, now)
                          /\ ev'.pre[link[o].satellite] # NoTleSet
                          /\ ev'.pre[link[o].satellite].updated > link[o].tle_updated)
                            => /\ link'[o].tle_updated
                                     = ev'.pre[link[o].satellite].updated
                               /\ link'[o].tle_lines
                                     = ev'.pre[link[o].satellite].lines]_vars

(***************************************************************************)
(* Properties of the lock of zip_audio                                     *)
(***************************************************************************)
\* C17: two zip_audio executions for observations of the same id range are
\* never both between taking the lock and releasing it, and an execution
\* that found the lock held is not writing and has left audio_zipped of its
\* observation as it was; also when a holder outlives the lock's expiration.
C17_WritersExclusive ==
    /\ \A o1, o2 \in ObsIds :
          (o1 # o2 /\ ZipGroup(o1) = ZipGroup(o2) /\ zip[o1] = "writing")
             => zip[o2] # "writing"
    /\ (ev.op = "zipstart" /\ ev.raised)
          => zip[ev.id] # "writing" /\ zipped[ev.id] = ev.pre

(***************************************************************************)
(* Properties of the hook next to a writer in another process              *)
(***************************************************************************)
RaceVetFields(row) == <<row.vetted_status, row.vetted_datetime, row.vetted_user>>

\* C18: when the hook has read an observation as unknown and another writer
\* has committed a manual vet before the hook's own save, the stored
\* vetted_status, vetted_datetime and vetted_user after the hook's save are
\* those of the manual vet.
C18_ManualVetPreserved ==
    (/\ ev.op = "hookvet"
     /\ ev.pre.vetted_status = "unknown"
     /\ ev.before.vetted_user # None
     /\ ev.before.vetted_status # "unknown")
        => RaceVetFields(obs[ev.id]) = RaceVetFields(ev.before)

(***************************************************************************)
(* Properties of the post_save hooks with both handlers registered         *)
(***************************************************************************)
ObsSaveOps == {"create", "upload", "resave"}

StationSaveOps == {"stsave", "sweep"}

\* C19: every save of an observation or of a station terminates: no
\* receiver is called while its own body is being executed, a save of an
\* observation by a caller leads to at most 3 row writes and 4 receiver
\* bodies, and a save of a station to at most 5 row writes and 4 receiver
\* bodies, with the receivers of models.py and of signals.py both registered.
C19_SavesTerminate ==
    /\ ~ev.reentry
    /\ ev.op \in ObsSaveOps => ev.nsaves <= 3 /\ ev.bodies <= 4
    /\ ev.op \in StationSaveOps => ev.nsaves <= 5 /\ ev.bodies <= 4

\* a station was saved once by a caller and both receivers saved it again,
\* each inside the other's save as well: five row writes, four bodies, and
\* both receivers are connected again
C19_Witness ==
    /\ ev.op = "stsave" /\ ev.nsaves = 5 /\ ev.bodies = 4 /\ ~ev.reentry
    /\ \A name \in {"mod", "sig"} : \E i \in 1..Len(stRecv) : stRecv[i] = name

\* C20: the creation of an observation for a station whose testing flag is
\* true stores it with testing = true, the creation for a station whose
\* flag is false stores it with testing = false, and no step changes the
\* testing flag of an observation that is already stored: not a later save
\* of it, and not a change of the station's flag.
C20_TestingMarkedOnCreation ==
    [][/\ (ev'.op = "create" /\ ~ev'.raised
              /\ StationTesting(ev'.pre.ground_station) = "testing")
             => obs'[ev'.id].testing
       /\ (ev'.op = "create" /\ ~ev'.raised
              /\ StationTesting(ev'.pre.ground_station) = "normal")
             => ~obs'[ev'.id].testing
       /\ \A o \in ObsIds :
             obs[o].exists => obs'[o].testing = obs[o].testing]_vars

\* an observation created while its station was not testing was saved again
\* after the station's flag had been set, and is still not marked
C20_Witness ==
    /\ ev.op = "resave" /\ ~ev.raised
    /\ obs[ev.id].exists /\ ~obs[ev.id].testing
    /\ StationTesting(obs[ev.id].ground_station) = "testing"


(***************************************************************************)
(* C21: audio validation of an observation that has a local payload and is *)
(* not archived: a file whose duration is absent or under one second, or   *)
(* whose container is malformed, is deleted and no archival, rating or     *)
(* zipping task is queued for it; a valid file is kept, and the receiver   *)
(* queues archival exactly in production; the receiver leaves the file and *)
(* payload of an archived observation alone.  The receiver's validation    *)
(* is the one of a save it is connected for and that ended without an      *)
(* exception.                                                              *)
(***************************************************************************)
SigConnected == \E i \in 1..Len(obsRecv) : obsRecv[i] = "sig"

C21_HookStep ==
    LET e == ev'
        o == e.id
        local == HasAudio(e.pre, e.f) /\ ~e.pre.archived
    IN  (e.op \in {"upload", "resave"} /\ ~e.raised /\ SigConnected) =>
            /\ (local /\ e.f \in {"short", "badtag", "badstruct"}) =>
                   /\ ~obs'[o].payload /\ file'[o] = "absent"
                   /\ e.enq = 0 /\ archQ' = archQ
                   /\ rateQ' = rateQ /\ zipQ' = zipQ
            /\ (local /\ e.f = "valid") =>
                   /\ obs'[o].payload /\ file'[o] = "valid"
                   /\ (e.enq > 0) <=> (env = "production")
                   /\ archQ'[o] = archQ[o] + e.enq
            /\ e.pre.archived =>
                   /\ file'[o] = e.f /\ obs'[o].payload = e.pre.payload
                   /\ e.enq = 0

C21_TaskStep ==
    LET e == ev'
        o == e.id
    IN  (e.op = "process" /\ ~e.raised) =>
            /\ Rejected(e.f) =>
                   /\ ~obs'[o].payload /\ file'[o] = "absent"
                   /\ archQ' = archQ /\ rateQ' = rateQ /\ zipQ' = zipQ
            /\ e.f = "valid" =>
                   /\ obs'[o].payload /\ file'[o] = "valid"
                   /\ archQ' = archQ

C21_AudioOutcomes == [][C21_HookStep /\ C21_TaskStep]_vars

\* a malformed upload has just been deleted by the receiver with nothing
\* queued, in production
C21_Witness ==
    /\ ev.op = "upload" /\ ev.f = "badstruct" /\ ~ev.raised
    /\ env = "production"
    /\ ev.bodies >= 2 /\ ev.nsaves >= 2
    /\ ~obs[ev.id].payload /\ file[ev.id] = "absent"
    /\ archQ[ev.id] = 0 /\ rateQ[ev.id] = 0 /\ zipQ[ev.id] = 0

(***************************************************************************)
(* C22: a station's success rate is round(100 * good / (good + bad)) over  *)
(* its observations outside testing, good and bad counting those vetted    *)
(* good and bad; unknown and testing observations do not contribute.       *)
(* Stated of the value Station.success_rate computes when nothing is       *)
(* cached.                                                                 *)
(***************************************************************************)
VettedAs(rows, s, status) ==
    Cardinality({o \in ObsIds : /\ rows[o].exists /\ rows[o].ground_station = s
                                /\ ~rows[o].testing
                                /\ rows[o].vetted_status = status})

\* round(100 * a / b) for b > 0
RoundedPercent(a, b) == (200 * a + b) \div (2 * b)

C22_RateIsGoodOverVetted ==
    (/\ ev.op = "readrate" /\ ~ev.pre
     /\ VettedAs(obs, ev.id, "good") + VettedAs(obs, ev.id, "bad") > 0)
        => ev.before = RoundedPercent(VettedAs(obs, ev.id, "good"),
                                      VettedAs(obs, ev.id, "good")
                                          + VettedAs(obs, ev.id, "bad"))

(***************************************************************************)
(* C23: after an observation's vetted_status has changed, the next read of *)
(* its station's success rate and of its transmitter's cached counts and   *)
(* rates returns the value computed from the stored observations, never a  *)
(* value cached before the change.                                         *)
(***************************************************************************)
FreshTransmitterValue(rows, key) ==
    IF key[2] = "count" THEN TransmitterCount(rows, key[1])
    ELSE RateOf(TransmitterCount(rows, key[1]), DataCount(rows))

C23_NextReadFresh ==
    [][(ev.op = "vet" /\ ev.before.vetted_status # obs[ev.id].vetted_status)
          => /\ ev'.op = "readrate" => ev'.before = StationRate(obs, ev'.id)
             /\ ev'.op = "readtr" => ev'.before = FreshTransmitterValue(obs, ev'.pre)]_vars

(***************************************************************************)
(* C24: a catalog request made with an empty endpoint URL, or whose HTTP   *)
(* request fails, raises DBConnectionError and returns no data;            *)
(* update_future_observations_with_new_tle_sets and fetch_data then finish *)
(* without raising and leave every Observation and Satellite unchanged.    *)
(***************************************************************************)
CatalogFailure(pre) == pre.url_empty \/ pre.http = "error"

C24_CatalogFailureNonFatal ==
    [][/\ (ev'.op = "apirequest" /\ CatalogFailure(ev'.pre))
            => ev'.raised /\ ev'.before = NoData
       /\ (ev'.op = "tletask" /\ ev'.raised)
            => link' = link /\ obs' = obs /\ sats' = sats
       /\ (ev'.op = "fetchdata" /\ CatalogFailure(ev'.pre))
            => ~ev'.raised /\ link' = link /\ obs' = obs /\ sats' = sats]_vars

(***************************************************************************)
(* C25: whenever an invocation of the Observation or Station post_save     *)
(* receiver has finished, by returning or because a step inside it failed, *)
(* the receiver is registered again.  The first connected receiver is the  *)
(* one every send invokes.                                                 *)
(***************************************************************************)
Registered(recv, name) == \E i \in 1..Len(recv) : recv[i] = name

C25_InvokedReceiverRegisteredAgain ==
    [][/\ (ev'.op \in {"create", "upload", "resave", "vet"} /\ obsRecv # <<>>)
            => Registered(obsRecv', Head(obsRecv))
       /\ (ev'.op \in StationSaveOps /\ stRecv # <<>>)
            => Registered(stRecv', Head(stRecv))]_vars

(***************************************************************************)
(* C26: running the Observation or Station post_save receiver again on a   *)
(* record that is unchanged since its previous run writes nothing more: no *)
(* save besides the caller's, no StationStatusLog row, no archival task.   *)
(***************************************************************************)
C26_RerunWritesNothing ==
    [][/\ (/\ ev.op \in {"create", "upload", "resave", "vet"} /\ ~ev.raised
           /\ ev'.op = "resave" /\ ev'.id = ev.id /\ ~ev'.raised)
            => ev'.nsaves = 1 /\ ev'.enq = 0 /\ obs' = obs
       /\ (/\ ev.op \in {"stcreate", "stsave"}
           /\ ev'.op = "stsave" /\ ev'.id = ev.id /\ ev'.pre = station[ev'.id])
            => ev'.nsaves = 1 /\ ev'.rows = 0 /\ station' = station]_vars

(***************************************************************************)
(* C27: in every reachable state an archived observation has an            *)
(* archive_identifier and an archive_url and no local payload, and an      *)
(* observation that is not archived has no archive_url; the flag, the      *)
(* pointer and the removal of the payload change in one step.              *)
(***************************************************************************)
ArchiveConsistent(row, f) ==
    /\ row.archived => /\ row.archive_identifier # None /\ row.archive_url # None
                       /\ ~row.payload /\ f = "absent"
    /\ ~row.archived => row.archive_url = None

ArchivedTogether(o) ==
    (obs'[o].archived # obs[o].archived \/ obs'[o].archive_url # obs[o].archive_url)
        => /\ ~obs[o].archived /\ obs[o].archive_url = None
           /\ obs'[o].archived /\ obs'[o].archive_url # None
           /\ obs'[o].archive_identifier # None
           /\ ~obs'[o].payload /\ file'[o] = "absent"

PushFailed(k) ==
    sync[k].failed \/ (ev'.op = "push" /\ ev'.before = "neterr")

C28_RunPushesOtherFrames ==
    [][\A k \in Workers :
          (sync[k].pc = "loop" /\ sync'[k].pc = "idle" /\ PushFailed(k))
              => \A i \in 2..Len(sync[k].todo) :
                    demod[sync[k].todo[i]].kind # "data"]_vars

(***************************************************************************)
(* C29: every zip_audio request for an observation eventually results in   *)
(* its audio written to the zip file with audio_zipped set, when every     *)
(* queued task is taken by a worker and every write ends: a request that   *)
(* found the lock held is deferred and not lost.                           *)
(***************************************************************************)
C29_RequestsEventuallyZipped ==
    \A o \in ObsIds : (zipQ[o] > 0) ~> zipped[o]

(***************************************************************************)
(* C30: the id range of an observation is a function of its id that        *)
(* partitions the positive ids into consecutive ranges of size N (1000 for *)
(* the archive item, AUDIO_FILES_PER_ZIP for the zip file and its lock     *)
(* key): the range of n is [((n-1) div N)*N + 1, ((n-1) div N)*N + N], n   *)
(* lies in it, and two ids get the same identifier exactly when they lie   *)
(* in the same range.                                                      *)
(***************************************************************************)
ClaimedRange(n, size) ==
    <<((n - 1) \div size) * size + 1, ((n - 1) \div size) * size + size>>

Inside(n, r) == r[1] <= n /\ n <= r[2]

C30_RangesPartitionIds ==
    ev.op = "bucket" =>
        LET n == ev.id
            m == ev.pre
            out == ev.before
        IN  /\ out.range[1] = ClaimedRange(n, ARCHIVE_BUCKET)
            /\ out.zrange[1] = ClaimedRange(n, AUDIO_FILES_PER_ZIP)
            /\ Inside(n, out.range[1]) /\ Inside(n, out.zrange[1])
            /\ (out.item[1] = out.item[2]) <=> Inside(m, out.range[1])
            /\ (out.key[1] = out.key[2]) <=> Inside(m, out.zrange[1])
            /\ (out.file[1] = out.file[2]) <=> Inside(m, out.zrange[1])

\* the last id of the first archive item and the first id of the second
C30_Witness ==
    /\ ev.op = "bucket" /\ ev.id = ARCHIVE_BUCKET /\ ev.pre = ARCHIVE_BUCKET + 1
    /\ ev.before.item[1] # ev.before.item[2]
    /\ ev.before.range[1] = <<1, ARCHIVE_BUCKET>>
    /\ Len(ev.before.item[1][2]) = ZFILL_WIDTH

(***************************************************************************)
(* C31: clean_observations neither deletes nor enqueues archival for an    *)
(* observation that is archived or not older than the threshold; an        *)
(* observation it selects is deleted or gets archival enqueued; archival   *)
(* is enqueued only when the payload file is on disk.                      *)
(***************************************************************************)
C31_SweepDeletesOrArchives ==
    [][ev'.op = "clean" =>
          \A o \in ObsIds :
             /\ (o \notin ev'.pre \/ obs[o].archived)
                    => obs'[o] = obs[o] /\ archQ'[o] = archQ[o]
             /\ (o \in ev'.pre /\ obs[o].exists /\ ~obs[o].archived /\ obs[o].payload)
                    => ~obs'[o].exists \/ archQ'[o] = archQ[o] + 1
             /\ archQ'[o] > archQ[o] => file[o] # "absent"]_vars

(***************************************************************************)
(* C32: deleting an Observation removes its payload and waterfall files    *)
(* when they exist, and a failure to remove a file (a missing file, a file *)
(* removed by another process between the existence check and the          *)
(* removal) does not make the deletion of the record fail.                 *)
(***************************************************************************)
C32_DeleteSurvivesFileErrors ==
    ev.op = "delete" =>
        /\ ~ev.raised
        /\ ~obs[ev.id].exists
        /\ file[ev.id] = "absent"
        /\ ev.pre.waterfall = "file" => ev.uploaded

(***************************************************************************)
(* C33: the auto-vet check of a hook run uses the DemodData count of the   *)
(* observation as it is at the save that triggered the hook: a completed   *)
(* hook run on an unknown observation whose mode is not excluded leaves it *)
(* good exactly when a frame was attached before that save, never by a     *)
(* count read earlier.                                                     *)
(***************************************************************************)
C33_VetUsesCountAtSave ==
    [][(/\ ev'.op \in ObsSaveOps /\ ev'.bodies > 0 /\ ~ev'.raised
        /\ ev'.pre.vetted_status = "unknown"
        /\ ev'.pre.transmitter_mode # "CW")
          => /\ ev'.n = frames[ev'.id]
             /\ obs'[ev'.id].vetted_status = "good" <=> frames[ev'.id] >= 1
             /\ frames[ev'.id] >= 1 => obs'[ev'.id].vetted_datetime = now]_vars

\* a frame was attached after the observation was stored, and the next save
\* of the observation vetted it
C33_Witness ==
    /\ ev.op = "resave" /\ ev.bodies > 0 /\ ~ev.raised
    /\ ev.n >= 1 /\ frames[ev.id] = ev.n
    /\ ev.before.vetted_status = "unknown" /\ ev.pre.transmitter_mode # "CW"
    /\ obs[ev.id].vetted_status = "good" /\ obs[ev.id].vetted_datetime = now

(***************************************************************************)
(* C34: the receivers of models.py and of signals.py differ only in the    *)
(* mode exclusion and the audio handling: given the same save of an        *)
(* observation without a local payload whose mode is not CW, each leaves   *)
(* the same testing flag, the same vetted_status and a vetted_datetime     *)
(* that is set in both or in neither; the two Station receivers leave the  *)
(* same stored status and the same number of StationStatusLog rows for     *)
(* every save.                                                             *)
(***************************************************************************)
LocalPayload(inst, f) == inst.payload /\ f # "absent"

C34_HooksEquivalent ==
    /\ (/\ ev.op = "hooks" /\ ~LocalPayload(ev.pre, ev.f)
        /\ ev.pre.transmitter_mode # "CW")
          => /\ ev.before.mod.testing = ev.before.sig.testing
             /\ ev.before.mod.vetted_status = ev.before.sig.vetted_status
             /\ (ev.before.mod.vetted_datetime = None)
                    <=> (ev.before.sig.vetted_datetime = None)
    /\ ev.op = "sthooks"
          => /\ ev.before.mod.status = ev.before.sig.status
             /\ ev.before.mod.rows = ev.before.sig.rows

\* both receivers auto-vetted an unknown FM observation that had a frame
C34_Witness ==
    /\ ev.op = "hooks" /\ ~LocalPayload(ev.pre, ev.f) /\ ~ev.created
    /\ ev.pre.transmitter_mode = "FM" /\ ev.pre.vetted_status = "unknown"
    /\ ev.n >= 1
    /\ ev.before.mod.vetted_status = "good" /\ ev.before.sig.vetted_status = "good"
    /\ ev.before.mod.vetted_datetime = now /\ ev.before.mod.nsaves = 2

(***************************************************************************)
(* C35: every save of an observation is processed by the hook, also a save *)
(* made by another writer of the process while the hook of a different     *)
(* observation has disconnected itself around its derived save: the saved  *)
(* observation gets its testing mark, its auto-vet and the validation of   *)
(* its audio.                                                              *)
(***************************************************************************)
C35_ConcurrentSaveProcessed ==
    (ev.op \in ObsSaveOps /\ ev.id \in Concurrent /\ ~ev.raised)
        => /\ (ev.created /\ StationTesting(ev.pre.ground_station) = "testing")
                => obs[ev.id].testing
           /\ (ev.n >= 1 /\ ev.pre.vetted_status = "unknown"
                  /\ ev.pre.transmitter_mode # "CW")
                => obs[ev.id].vetted_status = "good"
           /\ (ev.pre.payload /\ ev.f = "short") => ~obs[ev.id].payload

(***************************************************************************)
(* C36: once the archived flag of an observation is stored as true it is   *)
(* never stored as false again, and archive_url and archive_identifier are *)
(* never cleared, however archive_audio interleaves with the derived saves *)
(* of the post-save hook.                                                  *)
(***************************************************************************)
C36_ArchivedIsStable ==
    [][\A o \in ObsIds :
          obs[o].archived
              => /\ obs'[o].archived
                 /\ obs'[o].archive_url = obs[o].archive_url
                 /\ obs'[o].archive_identifier = obs[o].archive_identifier]_vars

=========================================================================
